---- MODULE Spec2Model ----
(***************************************************************************)
(* Model of the PokeemeraldMapConverter tools (tools/PokeemeraldMapConverter*)
(* of PokeSharp): the bitfield decoders, the border checkerboard, the       *)
(* metatile/attribute loaders, the palette-baked renderer with its PNG      *)
(* writer, and the tile-reference path of the map converter.                *)
(*                                                                          *)
(* Python lists are 0-based; sequences here are 1-based, so list[i] is      *)
(* written seq[i + 1].  Byte buffers are sequences of 0..255.               *)
(***************************************************************************)
EXTENDS Integers, Sequences, FiniteSets, TLC

VARIABLES
    pc,             \* position of the running tool
    raw_tile,       \* TileBitfield handed to parse_tile / scanned by get_tile_palette_index
    tile_ref,       \* TileRef returned by parse_tile
    tile_id,        \* get_tile_palette_index: raw_tile & 0x3FF
    tile_palette,   \* get_tile_palette_index: (raw_tile >> 12) & 0xF
    border_tiles,   \* get_border_metatile: the border list
    pos_x,          \* get_border_metatile: x
    pos_y,          \* get_border_metatile: y
    border_result,  \* get_border_metatile: the value returned, or the error raised
    metatiles_exists,   \* whether metatiles.bin exists
    metatiles_data,     \* bytes of metatiles.bin
    attributes_exists,  \* whether metatile_attributes.bin exists
    attributes_data,    \* bytes of metatile_attributes.bin
    metatiles,      \* convert_tileset_8x8.load_metatiles: the list returned, or the error raised
    tileset,        \* convert_map_8x8.load_metatiles_from_pokeemerald: TilesetData.metatiles
    tile_idx,       \* get_tile_palette_index: the tile looked for
    scan_result,    \* get_tile_palette_index: the palette index returned
    width,          \* render_tileset_with_palettes: width of the indexed image
    height,         \* render_tileset_with_palettes: height of the indexed image
    pixels,         \* render_tileset_with_palettes: rows of colour indices
    palettes,       \* render_tileset_with_palettes: palette number -> colour table
    tile_offset,    \* render_tileset_with_palettes: 0, or 512 for a secondary tileset
    tile_y,         \* render loop: tile row
    row_in_tile,    \* render loop: pixel row inside the tile row
    tile_x,         \* render loop: tile column
    palette_idx,    \* render loop: palette index of the tile being rendered
    palette,        \* render loop: colour table selected for the tile being rendered
    row_rgba,       \* render loop: the output row being built
    rgba_pixels,    \* render loop: the output rows finished so far
    output_png,     \* write_rgba_png: the bytes written to output_path
    decoded,        \* what a consumer of the container format reads back from output_png
    width_metatiles,        \* convert_pokeemerald_map: layout['width'], then len(map_data[0])
    height_metatiles,       \* convert_pokeemerald_map: layout['height'], then len(map_data)
    map_bin,                \* bytes of the map.bin named by layout['blockdata_filepath']
    border_bin,             \* the border.bin file: whether it exists, and its bytes
    primary_tileset_dir,    \* metatiles.bin and metatile_attributes.bin of the primary tileset
    secondary_tileset_dir,  \* the same for the secondary tileset, when the directory is given and exists
    map_data,               \* convert_pokeemerald_map: rows of raw map blocks
    primary_tileset,        \* convert_pokeemerald_map: TilesetData.metatiles of the primary tileset
    secondary_tileset,      \* convert_pokeemerald_map: TilesetData.metatiles of the secondary tileset
    map_y,                  \* tile loop: y
    map_x,                  \* tile loop: x
    bottom_layer_data,      \* tile loop: global tile ids of the ground layer
    top_layer_data,         \* tile loop: global tile ids of the overlay layer
    tiled_map,              \* the document written to output_path
    pal_file,               \* load_jasc_palette: the lines of the .pal file, each split into fields
    palette_render,         \* what render_tileset_with_palettes.load_jasc_palette returns or raises
    palette_apply,          \* what apply_palettes.load_jasc_palette returns or raises
    palette_replace,        \* what replace_png_palette.load_jasc_palette returns or raises
    input_png,              \* bytes of the PNG read by read_png_indexed_data / replace_png_palette
    indexed,                \* what read_png_indexed_data returns or raises
    replaced_png,           \* replace_png_palette: the bytes written to output_png, or the error
    fallback_result,        \* apply_border_fallback: the grid returned, or the error raised
    tiles_png,              \* convert_tileset_8x8: input_dir / "tiles.png"
    palettes_dir,           \* convert_tileset_8x8: input_dir / "palettes" and its .pal files
    apply_palettes,         \* convert_tileset_8x8: the --apply-palettes flag
    script_exists,          \* convert_tileset_8x8: render_palettes_script.exists()
    png_writable,           \* whether output_png_path can be opened for writing
    tileset_json,           \* convert_tileset_8x8: the document at output_path, <<>> until written
    output_png_file,        \* convert_tileset_8x8: the bytes at output_png_path, <<>> until written
    render_result,          \* convert_tileset_8x8: how the render_tileset_with_palettes.py run ended
    walk_tool,              \* chunk walk: "read" (read_png_indexed_data) or "replace" (replace_png_palette)
    walk_pos,               \* chunk walk: pos
    walk_found,             \* chunk walk of the reader: palette_data and idat_data so far
    output_chunks,          \* chunk walk of the replacer: the bytes collected so far
    walk_palette,           \* chunk walk of the replacer: <<palette>> once load_jasc_palette returned
    walk_result,            \* chunk walk: <<what the tool returned, wrote or raised>>, <<>> while it runs
    stdout                  \* the lines printed so far

bitsVars   == <<raw_tile, tile_ref, tile_id, tile_palette>>
borderVars == <<border_tiles, pos_x, pos_y, border_result>>
fileVars   == <<metatiles_exists, metatiles_data, attributes_exists, attributes_data>>
loadVars   == <<metatiles, tileset>>
scanVars   == <<tile_idx, scan_result>>
imageVars  == <<width, height, pixels, palettes, tile_offset>>
loopVars   == <<tile_y, row_in_tile, tile_x, palette_idx, palette, row_rgba, rgba_pixels>>
renderVars == <<imageVars, loopVars>>
pngVars    == <<output_png, decoded>>
mapFileVars == <<map_bin, border_bin, primary_tileset_dir, secondary_tileset_dir>>
mapVars    == <<width_metatiles, height_metatiles, mapFileVars, map_data, primary_tileset,
                secondary_tileset, map_y, map_x, bottom_layer_data, top_layer_data, tiled_map>>
jascVars   == <<pal_file, palette_render, palette_apply, palette_replace>>
readVars   == <<input_png, indexed, replaced_png>>
fallbackVars == <<fallback_result>>
jobVars    == <<tiles_png, palettes_dir, apply_palettes, script_exists, png_writable,
                tileset_json, output_png_file, render_result>>
walkVars   == <<walk_tool, walk_pos, walk_found, output_chunks, walk_palette, walk_result>>
restVars   == <<fallbackVars, jobVars, walkVars>>
vars       == <<pc, bitsVars, borderVars, fileVars, loadVars, scanVars, renderVars, pngVars,
                mapVars, jascVars, readVars, restVars, stdout>>

None == "None"

\* A call either returns a value or raises.
Ok(v)    == [error |-> None, value |-> v]
Raise(e) == [error |-> e, value |-> <<>>]

(***************************************************************************)
(* Python's integer operators on non-negative integers.                    *)
(***************************************************************************)
RECURSIVE BitAnd(_, _)
BitAnd(a, b) ==
    IF a = 0 \/ b = 0 THEN 0
    ELSE (IF a % 2 = 1 /\ b % 2 = 1 THEN 1 ELSE 0) + 2 * BitAnd(a \div 2, b \div 2)

RECURSIVE BitOr(_, _)
BitOr(a, b) ==
    IF a = 0 THEN b
    ELSE IF b = 0 THEN a
    ELSE (IF a % 2 = 1 \/ b % 2 = 1 THEN 1 ELSE 0) + 2 * BitOr(a \div 2, b \div 2)

\* the operands are bound to values first, so that each is computed once
RECURSIVE BitXor(_, _)
BitXor(a, b) ==
    CHOOSE r \in {IF x = 0 THEN y
                  ELSE IF y = 0 THEN x
                  ELSE (IF (x % 2) # (y % 2) THEN 1 ELSE 0) + 2 * BitXor(x \div 2, y \div 2) :
                  x \in {a}, y \in {b}} : TRUE

Shr(a, n) == a \div (2 ^ n)
Shl(a, n) == a * (2 ^ n)

(***************************************************************************)
(* Idle values of each group of variables, for the specifications that do  *)
(* not run the tool the group belongs to.                                  *)
(***************************************************************************)
BitsIdle   == raw_tile = 0 /\ tile_ref = None /\ tile_id = None /\ tile_palette = None
BorderIdle == border_tiles = <<>> /\ pos_x = 0 /\ pos_y = 0 /\ border_result = None
FileIdle   ==
    /\ metatiles_exists = FALSE /\ metatiles_data = <<>>
    /\ attributes_exists = FALSE /\ attributes_data = <<>>
LoadIdle   == metatiles = None /\ tileset = None
ScanIdle   == tile_idx = 0 /\ scan_result = None
RenderIdle ==
    /\ width = 0 /\ height = 0 /\ pixels = <<>> /\ palettes = <<>> /\ tile_offset = 0
    /\ tile_y = 0 /\ row_in_tile = 0 /\ tile_x = 0
    /\ palette_idx = None /\ palette = None /\ row_rgba = <<>> /\ rgba_pixels = <<>>
PngIdle    == output_png = None /\ decoded = None
NoFile     == [exists |-> FALSE, data |-> <<>>]
NoDir      == [exists |-> FALSE, metatiles_bin |-> NoFile, metatile_attributes_bin |-> NoFile]
MapIdle    ==
    /\ width_metatiles = 0 /\ height_metatiles = 0 /\ map_bin = <<>> /\ border_bin = NoFile
    /\ primary_tileset_dir = NoDir /\ secondary_tileset_dir = NoDir
    /\ map_data = <<>> /\ primary_tileset = None /\ secondary_tileset = None
    /\ map_y = 0 /\ map_x = 0 /\ bottom_layer_data = <<>> /\ top_layer_data = <<>>
    /\ tiled_map = None

JascIdle   ==
    /\ pal_file = <<>> /\ palette_render = None /\ palette_apply = None
    /\ palette_replace = None

ReadIdle   == input_png = <<>> /\ indexed = None /\ replaced_png = None

FallbackIdle == fallback_result = None
JobIdle    ==
    /\ tiles_png = NoFile /\ palettes_dir = [exists |-> FALSE, files |-> <<>>]
    /\ apply_palettes = FALSE /\ script_exists = FALSE /\ png_writable = FALSE
    /\ tileset_json = <<>> /\ output_png_file = <<>> /\ render_result = None
WalkIdle   ==
    /\ walk_tool = None /\ walk_pos = 0 /\ output_chunks = <<>>
    /\ walk_palette = <<>> /\ walk_result = <<>>
    /\ walk_found = [palette_data |-> <<>>, idat_data |-> <<>>]
RestIdle   == FallbackIdle /\ JobIdle /\ WalkIdle

\* What each specification leaves idle, and never changes.
NotBits    == <<borderVars, fileVars, loadVars, scanVars, renderVars, pngVars, mapVars, jascVars,
                readVars, restVars, stdout>>
NotBorder  == <<bitsVars, fileVars, loadVars, scanVars, renderVars, pngVars, mapVars, jascVars,
                readVars, restVars, stdout>>
NotLoad    == <<bitsVars, borderVars, scanVars, renderVars, pngVars, mapVars, jascVars,
                readVars, restVars, stdout>>
NotScan    == <<bitsVars, borderVars, loadVars, renderVars, pngVars, mapVars, jascVars,
                readVars, restVars, stdout>>
NotRender  == <<bitsVars, borderVars, loadVars, scanVars, mapVars, jascVars,
                readVars, restVars, stdout>>
NotMap     == <<bitsVars, pos_x, pos_y, border_result, fileVars, metatiles, scanVars,
                renderVars, pngVars, jascVars, readVars, restVars, stdout>>
NotJasc    == <<bitsVars, borderVars, fileVars, loadVars, scanVars, renderVars, pngVars, mapVars,
                readVars, restVars, stdout>>
NotRead    == <<bitsVars, borderVars, fileVars, loadVars, scanVars, renderVars, pngVars, mapVars,
                palette_render, palette_apply, restVars, stdout>>
BitsOnly   == BorderIdle /\ FileIdle /\ LoadIdle /\ ScanIdle /\ RenderIdle /\ PngIdle /\ MapIdle /\ JascIdle
              /\ ReadIdle /\ RestIdle /\ stdout = <<>>
BorderOnly == BitsIdle /\ FileIdle /\ LoadIdle /\ ScanIdle /\ RenderIdle /\ PngIdle /\ MapIdle /\ JascIdle
              /\ ReadIdle /\ RestIdle /\ stdout = <<>>
LoadOnly   == BitsIdle /\ BorderIdle /\ ScanIdle /\ RenderIdle /\ PngIdle /\ MapIdle /\ JascIdle
              /\ ReadIdle /\ RestIdle /\ stdout = <<>>
ScanOnly   == BitsIdle /\ BorderIdle /\ LoadIdle /\ RenderIdle /\ PngIdle /\ MapIdle /\ JascIdle
              /\ ReadIdle /\ RestIdle /\ stdout = <<>>
RenderOnly == BitsIdle /\ BorderIdle /\ LoadIdle /\ ScanIdle /\ MapIdle /\ JascIdle
              /\ ReadIdle /\ RestIdle
JascOnly   ==
    /\ BitsIdle /\ BorderIdle /\ FileIdle /\ LoadIdle /\ ScanIdle /\ RenderIdle /\ PngIdle
    /\ MapIdle /\ ReadIdle /\ RestIdle /\ stdout = <<>>
ReadOnly   ==
    /\ BitsIdle /\ BorderIdle /\ FileIdle /\ LoadIdle /\ ScanIdle /\ RenderIdle /\ PngIdle
    /\ MapIdle /\ palette_render = None /\ palette_apply = None /\ RestIdle /\ stdout = <<>>
MapOnly    == BitsIdle /\ BorderIdle /\ FileIdle /\ LoadIdle /\ ScanIdle /\ RenderIdle /\ PngIdle /\ JascIdle
              /\ ReadIdle /\ RestIdle /\ stdout = <<>>

(***************************************************************************)
(* TileBitfield decoding.                                                  *)
(***************************************************************************)
U16 == 0 .. 65535

parse_tile_noflip(raw) ==
    [gid |-> BitAnd(raw, 1023) + 1, h_flip |-> FALSE, v_flip |-> BitAnd(raw, 2048) # 0]

parse_tile(raw) ==
    LET tile_index == BitAnd(raw, 1023)
    IN  [gid    |-> tile_index + 1,
         h_flip |-> BitAnd(raw, 1024) # 0,
         v_flip |-> BitAnd(raw, 2048) # 0]

tile_id_of(raw_tile_) == BitAnd(raw_tile_, 1023)

palette_of(raw_tile_) == BitAnd(Shr(raw_tile_, 12), 15)

InitBits ==
    /\ pc = "bits"
    /\ raw_tile \in U16
    /\ tile_ref = None /\ tile_id = None /\ tile_palette = None
    /\ BitsOnly

ParseTile ==
    /\ pc = "bits"
    /\ tile_ref' = parse_tile(raw_tile)
    /\ pc' = "bits_parsed"
    /\ UNCHANGED <<raw_tile, tile_id, tile_palette, NotBits>>

ScanTile ==
    /\ pc = "bits_parsed"
    /\ tile_id' = tile_id_of(raw_tile)
    /\ tile_palette' = palette_of(raw_tile)
    /\ pc' = "bits_done"
    /\ UNCHANGED <<raw_tile, tile_ref, NotBits>>

NextBits == ParseTile \/ ScanTile

SpecBits == InitBits /\ [][NextBits]_vars

B2N(b) == IF b THEN 1 ELSE 0

\* C1: for every 16-bit value v the decoded fields are tile_index = v mod 1024,
\* h_flip = bit 10, v_flip = bit 11, palette_key = bits 12..15, and packing them
\* back as tile_index | h_flip<<10 | v_flip<<11 | palette_key<<12 gives v.
C1_DecodeRoundTrip ==
    pc = "bits_done" =>
        /\ tile_id = raw_tile % 1024
        /\ tile_ref.gid = tile_id + 1
        /\ tile_ref.h_flip = ((raw_tile \div 1024) % 2 = 1)
        /\ tile_ref.v_flip = ((raw_tile \div 2048) % 2 = 1)
        /\ tile_palette = (raw_tile \div 4096) % 16
        /\ BitOr(BitOr(BitOr(tile_ref.gid - 1, Shl(B2N(tile_ref.h_flip), 10)),
                       Shl(B2N(tile_ref.v_flip), 11)),
                 Shl(tile_palette, 12)) = raw_tile

C1_Witness ==
    /\ pc = "bits_done"
    /\ raw_tile = 65535 - 2048
    /\ tile_ref.h_flip /\ ~tile_ref.v_flip /\ tile_palette = 15 /\ tile_id = 1023

(***************************************************************************)
(* border_tile_fix.get_border_metatile                                     *)
(***************************************************************************)
MaxCoord == 3
MaxBorderId == 3

BorderLists ==
    UNION {[1 .. n -> 0 .. MaxBorderId] : n \in {3, 4, 5}}

get_border_metatile_swapped(border_tiles_, x, y) ==
    IF Len(border_tiles_) # 4 THEN "ValueError"
    ELSE border_tiles_[(BitAnd(y + 1, 1) + BitAnd(x + 1, 1) * 2) + 1]

get_border_metatile(border_tiles_, x, y) ==
    IF Len(border_tiles_) # 4 THEN "ValueError"
    ELSE LET i == BitAnd(x + 1, 1) + BitAnd(y + 1, 1) * 2
         IN  border_tiles_[i + 1]

InitBorder ==
    /\ pc = "border"
    /\ border_tiles \in BorderLists
    /\ pos_x \in 0 .. MaxCoord
    /\ pos_y \in 0 .. MaxCoord
    /\ border_result = None
    /\ BorderOnly

GetBorderMetatile ==
    /\ pc = "border"
    /\ border_result' = get_border_metatile(border_tiles, pos_x, pos_y)
    /\ pc' = "border_done"
    /\ UNCHANGED <<border_tiles, pos_x, pos_y, NotBorder>>

NextBorder == GetBorderMetatile

SpecBorder == InitBorder /\ [][NextBorder]_vars

\* C2: for a 4-element border list and x, y >= 0, get_border_metatile returns
\* border[((x+1) mod 2) + ((y+1) mod 2)*2]; for [A,B,C,D]: (0,0) gives D,
\* (1,0) gives C, (0,1) gives B, (1,1) gives A.
C2_BorderCheckerboard ==
    (pc = "border_done" /\ Len(border_tiles) = 4) =>
        /\ border_result = border_tiles[(((pos_x + 1) % 2) + ((pos_y + 1) % 2) * 2) + 1]
        /\ (pos_x = 0 /\ pos_y = 0) => border_result = border_tiles[4]
        /\ (pos_x = 1 /\ pos_y = 0) => border_result = border_tiles[3]
        /\ (pos_x = 0 /\ pos_y = 1) => border_result = border_tiles[2]
        /\ (pos_x = 1 /\ pos_y = 1) => border_result = border_tiles[1]

C2_Witness ==
    /\ pc = "border_done"
    /\ border_tiles = <<0, 1, 2, 3>>
    /\ pos_x = 1 /\ pos_y = 0
    /\ border_result = 2

(***************************************************************************)
(* Byte buffers: slices, struct.unpack, range().                           *)
(***************************************************************************)
Min(a, b) == IF a < b THEN a ELSE b

\* data[a:b] for 0 <= a <= b: the slice stops at the end of the buffer.
Slice(data, a, b) ==
    IF a >= Min(b, Len(data)) THEN <<>> ELSE SubSeq(data, a + 1, Min(b, Len(data)))

\* b'\x00' * n
Zeros(n) == [k \in 1 .. n |-> 0]

\* struct.unpack('<H', data[off:off+2])[0]
unpack_le16(data, off) == data[off + 1] + 256 * data[off + 2]

\* len(range(0, n, step))
RangeCount(n, step) == (n + step - 1) \div step

(***************************************************************************)
(* convert_tileset_8x8: MetatileAttributes (4 bytes), Metatile (8 bytes),  *)
(* load_metatiles.                                                         *)
(***************************************************************************)
MetatileAttributes4(behavior, terrain, encounter_type, layer_type) ==
    [behavior |-> behavior, terrain |-> terrain,
     encounter_type |-> encounter_type, layer_type |-> layer_type]

attributes_from_bytes4(data) ==
    LET behavior          == unpack_le16(data, 0)
        terrain_and_layer == unpack_le16(data, 2)
    IN  MetatileAttributes4(behavior,
                            BitAnd(terrain_and_layer, 15),
                            BitAnd(Shr(terrain_and_layer, 4), 7),
                            BitAnd(Shr(terrain_and_layer, 7), 3))

\* struct.unpack('<4H', data) raises struct.error unless data holds exactly 8 bytes.
Metatile_from_bytes(data, attributes) ==
    IF Len(data) # 8 THEN Raise("struct.error")
    ELSE Ok([tiles |-> [q \in 1 .. 4 |-> unpack_le16(data, 2 * (q - 1))],
             attributes |-> attributes])

\* lines 205-208
pad_attributes(attributes_data_, expected_metatiles) ==
    IF Len(attributes_data_) < expected_metatiles * 4
    THEN attributes_data_ \o Zeros(4 * (expected_metatiles - Len(attributes_data_) \div 4))
    ELSE attributes_data_

load_metatiles(m_exists, m_data, a_exists, a_data) ==
    IF ~m_exists THEN Raise("FileNotFoundError")
    ELSE
    LET attributes_data0 == IF a_exists THEN a_data ELSE Zeros(4 * (Len(m_data) \div 8))
        expected_metatiles == Len(m_data) \div 8
        expected_attributes_size == expected_metatiles * 4
        attributes_data1 == pad_attributes(attributes_data0, expected_metatiles)
        n_attr == RangeCount(Min(Len(attributes_data1), expected_attributes_size), 4)
        attributes ==
            [k \in 1 .. n_attr |->
                LET attr_bytes == Slice(attributes_data1, 4 * (k - 1), 4 * (k - 1) + 4)
                IN  IF Len(attr_bytes) = 4
                    THEN attributes_from_bytes4(attr_bytes)
                    ELSE attributes_from_bytes4(attr_bytes \o Zeros(4 - Len(attr_bytes)))]
        n_meta == RangeCount(Len(m_data), 8)
        parsed ==
            [k \in 1 .. n_meta |->
                LET metatile_bytes == Slice(m_data, 8 * (k - 1), 8 * (k - 1) + 8)
                    metatile_idx   == k - 1
                IN  IF metatile_idx < Len(attributes)
                    THEN Metatile_from_bytes(metatile_bytes, attributes[metatile_idx + 1])
                    ELSE Metatile_from_bytes(metatile_bytes, MetatileAttributes4(0, 0, 0, 0))]
    IN  IF \E k \in 1 .. n_meta : parsed[k].error # None
        THEN Raise("struct.error")
        ELSE Ok([k \in 1 .. n_meta |-> parsed[k].value])

(***************************************************************************)
(* convert_map_8x8: MetatileAttributes (2 bytes), MetatileDefinition,      *)
(* load_metatiles_from_pokeemerald.                                        *)
(***************************************************************************)
MetatileAttributes2(raw_value) ==
    [raw_value  |-> raw_value,
     behavior   |-> BitAnd(raw_value, 255),
     layer_type |-> BitAnd(Shr(raw_value, 12), 15)]

MetatileDefinition(metatile_id, tiles, top_tiles, behavior, layer_type) ==
    [metatile_id |-> metatile_id, tiles |-> tiles, top_tiles |-> top_tiles,
     behavior |-> behavior, layer_type |-> layer_type]

\* lines 160-168: the whole 2-byte records of the attributes file, in order
load_attributes2(a_exists, a_data) ==
    IF ~a_exists THEN <<>>
    ELSE [k \in 1 .. (Len(a_data) \div 2) |->
            MetatileAttributes2(unpack_le16(a_data, 2 * (k - 1)))]

\* line 189 with the default replaced by the last record of the file
attr_for_last(attributes, metatile_id) ==
    IF metatile_id < Len(attributes) THEN attributes[metatile_id + 1]
    ELSE IF Len(attributes) > 0 THEN attributes[Len(attributes)]
    ELSE MetatileAttributes2(0)

\* line 189
attr_for(attributes, metatile_id) ==
    IF metatile_id < Len(attributes) THEN attributes[metatile_id + 1]
    ELSE MetatileAttributes2(0)

load_metatiles_from_pokeemerald(m_exists, m_data, a_exists, a_data) ==
    IF ~m_exists THEN <<>>
    ELSE
    LET attributes == load_attributes2(a_exists, a_data)
        metatile_count == Len(m_data) \div 16
        ids == {id \in 0 .. metatile_count - 1 : id * 16 + 16 <= Len(m_data)}
    IN  [metatile_id \in ids |->
            LET offset == metatile_id * 16
                raw_tiles == [q \in 1 .. 8 |-> unpack_le16(m_data, offset + 2 * (q - 1))]
                attr == attr_for(attributes, metatile_id)
            IN  MetatileDefinition(metatile_id,
                                   [q \in 1 .. 4 |-> parse_tile(raw_tiles[q])],
                                   [q \in 1 .. 4 |-> parse_tile(raw_tiles[4 + q])],
                                   attr.behavior, attr.layer_type)]

(***************************************************************************)
(* The loaders on bounded files.                                           *)
(***************************************************************************)
MaxMetaUnits == 5
MaxAttrLen == 6

MetaLens == {8 * k + r : k \in 0 .. MaxMetaUnits, r \in {0, 5}}
MetaByte(k) == (37 * k + 11) % 256
MetaBuffers == {[k \in 1 .. n |-> MetaByte(k - 1)] : n \in MetaLens}
AttrByteValues == {0, 7, 147}
AttrBuffers == UNION {[1 .. n -> AttrByteValues] : n \in 0 .. MaxAttrLen}

InitLoad ==
    /\ pc = "load"
    /\ metatiles_exists \in BOOLEAN
    /\ metatiles_data \in (IF metatiles_exists THEN MetaBuffers ELSE {<<>>})
    /\ attributes_exists \in BOOLEAN
    /\ attributes_data \in (IF attributes_exists THEN AttrBuffers ELSE {<<>>})
    /\ metatiles = None /\ tileset = None
    /\ LoadOnly

LoadMetatiles ==
    /\ pc = "load"
    /\ metatiles' = load_metatiles(metatiles_exists, metatiles_data,
                                   attributes_exists, attributes_data)
    /\ pc' = "load_tileset"
    /\ UNCHANGED <<fileVars, tileset, NotLoad>>

LoadMetatilesFromPokeemerald ==
    /\ pc = "load_tileset"
    /\ tileset' = load_metatiles_from_pokeemerald(metatiles_exists, metatiles_data,
                                                  attributes_exists, attributes_data)
    /\ pc' = "load_done"
    /\ UNCHANGED <<fileVars, metatiles, NotLoad>>

NextLoad == LoadMetatiles \/ LoadMetatilesFromPokeemerald

SpecLoad == InitLoad /\ [][NextLoad]_vars

RECURSIVE scan_last_from(_, _, _, _)
scan_last_from(data, tile_idx_, k, found) ==
    IF k >= 8 * (Len(data) \div 16) THEN found
    ELSE LET raw_tile_ == unpack_le16(data, 2 * k)
         IN  scan_last_from(data, tile_idx_, k + 1,
                 IF BitAnd(raw_tile_, 1023) = tile_idx_
                 THEN BitAnd(Shr(raw_tile_, 12), 15) ELSE found)

get_tile_palette_index_last(data, tile_idx_) == scan_last_from(data, tile_idx_, 0, 0)

\* lines 105-116 from flat position k = 8*i + j
RECURSIVE scan_from(_, _, _)
scan_from(data, tile_idx_, k) ==
    IF k >= 8 * (Len(data) \div 16) THEN 0
    ELSE LET raw_tile_ == unpack_le16(data, 2 * k)
             tile_id_  == BitAnd(raw_tile_, 1023)
             palette_  == BitAnd(Shr(raw_tile_, 12), 15)
         IN  IF tile_id_ = tile_idx_ THEN palette_
             ELSE scan_from(data, tile_idx_, k + 1)

get_tile_palette_index(data, tile_idx_) == scan_from(data, tile_idx_, 0)

\* Metatile tables to scan: records of 8 TileBitfields, as bytes.
MaxScanRecords == 2

TileWord(tile, pal, h, v) == tile + 1024 * h + 2048 * v + 4096 * pal
Filler == TileWord(7, 9, 0, 0)
ScanWords == {TileWord(0, 1, 0, 0), TileWord(1, 2, 1, 0), TileWord(1, 5, 0, 1)}
ScanRecords ==
    {[q \in 1 .. 8 |-> IF q = 1 THEN u ELSE IF q = b THEN v ELSE Filler] :
        b \in {4, 8}, u \in ScanWords, v \in ScanWords}
TableBytes(recs, extra) ==
    [k \in 1 .. 16 * Len(recs) |->
        LET w == recs[((k - 1) \div 16) + 1][(((k - 1) % 16) \div 2) + 1]
        IN  IF (k - 1) % 2 = 0 THEN w % 256 ELSE w \div 256] \o extra
ScanTables ==
    {TableBytes(recs, extra) :
        recs \in UNION {[1 .. n -> ScanRecords] : n \in 0 .. MaxScanRecords},
        extra \in {<<>>, <<1, 16, 1>>}}

InitScan ==
    /\ pc = "scan"
    /\ metatiles_exists = TRUE
    /\ metatiles_data \in ScanTables
    /\ attributes_exists = FALSE /\ attributes_data = <<>>
    /\ tile_idx \in {0, 1, 2}
    /\ scan_result = None
    /\ ScanOnly

GetTilePaletteIndex ==
    /\ pc = "scan"
    /\ scan_result' = get_tile_palette_index(metatiles_data, tile_idx)
    /\ pc' = "scan_done"
    /\ UNCHANGED <<fileVars, tile_idx, NotScan>>

NextScan == GetTilePaletteIndex

SpecScan == InitScan /\ [][NextScan]_vars

\* The TileBitfield stored at flat position k (record k div 8, slot k mod 8).
StoredWord(data, k) ==
    data[16 * (k \div 8) + 2 * (k % 8) + 1] + 256 * data[16 * (k \div 8) + 2 * (k % 8) + 2]

Matches(data, t) ==
    {k \in 0 .. 8 * (Len(data) \div 16) - 1 : StoredWord(data, k) % 1024 = t}

\* C8: get_tile_palette_index(t) returns bits 12-15 of the first TileBitfield, in
\* ascending record index and stored order inside a record, whose low 10 bits
\* equal t, and 0 when none matches; with several matches the earliest wins.
C8_FirstMatchWins ==
    pc = "scan_done" =>
        LET M == Matches(metatiles_data, tile_idx)
        IN  IF M = {} THEN scan_result = 0
            ELSE LET first == CHOOSE k \in M : \A j \in M : k <= j
                 IN  scan_result = (StoredWord(metatiles_data, first) \div 4096) % 16

\* Tile 1 is referenced by record 0 slot 3 with palette 5 and by record 1 slot 0
\* with palette 2: the earlier reference decides.
C8_Witness ==
    /\ pc = "scan_done"
    /\ tile_idx = 1
    /\ Len(metatiles_data) = 35
    /\ Matches(metatiles_data, 1) = {3, 8}
    /\ (StoredWord(metatiles_data, 3) \div 4096) % 16 = 5
    /\ (StoredWord(metatiles_data, 8) \div 4096) % 16 = 2
    /\ scan_result = 5

(***************************************************************************)
(* zlib, as far as the tools use it.  32-bit checksums are kept as their   *)
(* two 16-bit halves <<hi, lo>>.                                           *)
(***************************************************************************)
Shr1(c) == <<c[1] \div 2, (c[2] \div 2) + (c[1] % 2) * 32768>>
Shr8(c) == <<c[1] \div 256, (c[1] % 256) * 256 + (c[2] \div 256)>>
Xor32(c, d) == <<BitXor(c[1], d[1]), BitXor(c[2], d[2])>>
Bytes32(c) == <<c[1] \div 256, c[1] % 256, c[2] \div 256, c[2] % 256>>

\* CRC-32 (polynomial 0xEDB88320, reflected), table driven.  Intermediate values
\* are bound with v \in {e}, so that each is computed once.
RECURSIVE crc_bits(_, _)
crc_bits(c, n) ==
    IF n = 0 THEN c
    ELSE CHOOSE r \in {crc_bits(IF v[2] % 2 = 1 THEN Xor32(Shr1(v), <<60856, 33568>>)
                                ELSE Shr1(v), n - 1) : v \in {c}} : TRUE

crc_table == [n \in 0 .. 255 |-> crc_bits(<<0, n>>, 8)]

crc_step(c, byte) ==
    CHOOSE r \in {Xor32(t, s) : t \in {crc_table[BitXor(c[2] % 256, byte)]},
                                s \in {Shr8(c)}} : TRUE

\* The running CRC over data[lo .. hi], one byte after the other.  The range is
\* split in halves, and the CRC of the left half is bound to a value before the
\* right one is entered, only to keep the evaluation shallow and linear.
RECURSIVE crc_update(_, _, _, _)
crc_update(c, data, lo, hi) ==
    IF lo > hi THEN c
    ELSE IF lo = hi THEN crc_step(c, data[lo])
    ELSE LET mid == (lo + hi) \div 2
         IN  CHOOSE r \in {crc_update(left, data, mid + 1, hi) :
                                left \in {crc_update(c, data, lo, mid)}} : TRUE

\* zlib.crc32(data) & 0xffffffff
crc32(data) ==
    CHOOSE r \in {Xor32(crc_update(<<65535, 65535>>, d, 1, Len(d)), <<65535, 65535>>) :
                      d \in {data}} : TRUE

adler_step(s, byte) == <<(s[1] + ((s[2] + byte) % 65521)) % 65521, (s[2] + byte) % 65521>>

\* The running Adler-32 <<b, a>> over data[lo .. hi], one byte after the other.
RECURSIVE adler_update(_, _, _, _)
adler_update(s, data, lo, hi) ==
    IF lo > hi THEN s
    ELSE IF lo = hi THEN adler_step(s, data[lo])
    ELSE LET mid == (lo + hi) \div 2
         IN  CHOOSE r \in {adler_update(left, data, mid + 1, hi) :
                                left \in {adler_update(s, data, lo, mid)}} : TRUE

adler32(data) == adler_update(<<0, 1>>, data, 1, Len(data))

\* zlib.compress(data, 9): a zlib stream (header 78 DA, one final deflate block,
\* Adler-32 of the data).  The block is written stored, which every inflater
\* reads back as the same bytes as the block zlib would choose.
zlib_compress(data) ==
    <<120, 218, 1, Len(data) % 256, Len(data) \div 256,
      255 - (Len(data) % 256), 255 - (Len(data) \div 256)>>
    \o data \o Bytes32(adler32(data))

\* zlib.decompress(data)
zlib_decompress(data) ==
    IF Len(data) < 11 THEN Raise("zlib.error")
    ELSE LET n == data[4] + 256 * data[5]
         IN  IF \/ (data[1] * 256 + data[2]) % 31 # 0
                \/ data[1] % 16 # 8
                \/ data[3] # 1
                \/ data[6] # 255 - data[4] \/ data[7] # 255 - data[5]
                \/ Len(data) # 11 + n
             THEN Raise("zlib.error")
             ELSE LET body == SubSeq(data, 8, 7 + n)
                  IN  IF SubSeq(data, 8 + n, 11 + n) # Bytes32(adler32(body))
                      THEN Raise("zlib.error")
                      ELSE Ok(body)

(***************************************************************************)
(* render_tileset_with_palettes: write_rgba_png and make_chunk.            *)
(***************************************************************************)
PNG_SIGNATURE == <<137, 80, 78, 71, 13, 10, 26, 10>>
IHDR == <<73, 72, 68, 82>>
IDAT == <<73, 68, 65, 84>>
IEND == <<73, 69, 78, 68>>
PLTE == <<80, 76, 84, 69>>

\* struct.pack('>I', n)
pack_be32(n) == <<n \div 16777216, (n \div 65536) % 256, (n \div 256) % 256, n % 256>>

\* struct.unpack('>I', data[off:off+4])[0]
unpack_be32(data, off) ==
    data[off + 1] * 16777216 + data[off + 2] * 65536 + data[off + 3] * 256 + data[off + 4]

\* make_chunk with the CRC taken over the payload alone
make_chunk_crc_data(chunk_type, data) ==
    pack_be32(Len(data)) \o chunk_type \o data \o Bytes32(crc32(data))

\* lines 208-213
make_chunk(chunk_type, data) ==
    pack_be32(Len(data)) \o chunk_type \o data \o Bytes32(crc32(chunk_type \o data))

\* lines 194-197 without the filter byte
RECURSIVE scanlines_nofilter(_, _)
scanlines_nofilter(rows, k) ==
    IF k > Len(rows) THEN <<>> ELSE rows[k] \o scanlines_nofilter(rows, k + 1)

\* lines 194-197: raw_data, from row k on
RECURSIVE scanlines(_, _)
scanlines(rows, k) ==
    IF k > Len(rows) THEN <<>> ELSE <<0>> \o rows[k] \o scanlines(rows, k + 1)

\* lines 182-206: the bytes written to output_path
write_rgba_png(width_, height_, rgba_pixels_) ==
    LET ihdr_data  == pack_be32(width_) \o pack_be32(height_) \o <<8, 6, 0, 0, 0>>
        raw_data   == scanlines(rgba_pixels_, 1)
        compressed == zlib_compress(raw_data)
    IN  PNG_SIGNATURE \o make_chunk(IHDR, ihdr_data) \o make_chunk(IDAT, compressed)
        \o make_chunk(IEND, <<>>)

\* line 179 / lines 182-206
WriteRgbaPng ==
    /\ pc = "write"
    /\ output_png' = write_rgba_png(width, height, rgba_pixels)
    /\ pc' = "written"
    /\ UNCHANGED <<fileVars, renderVars, decoded, NotRender>>

(***************************************************************************)
(* render_tileset_with_palettes: the palette-baked path.                   *)
(***************************************************************************)
tile_size == 8

\* line 157 with the fallback looked up only when it is needed
resolve_palette_lazy(palettes_, palette_idx_) ==
    IF palette_idx_ \in DOMAIN palettes_ THEN Ok(palettes_[palette_idx_])
    ELSE IF 0 \in DOMAIN palettes_ THEN Ok(palettes_[0])
    ELSE Raise("KeyError")

\* line 157: palettes.get(palette_idx, palettes[0]); the default palettes[0] is
\* evaluated before the lookup and raises KeyError when palette 0 is not loaded.
resolve_palette(palettes_, palette_idx_) ==
    IF 0 \notin DOMAIN palettes_ THEN Raise("KeyError")
    ELSE IF palette_idx_ \in DOMAIN palettes_ THEN Ok(palettes_[palette_idx_])
    ELSE Ok(palettes_[0])

\* lines 166-172 with colour index 0 looked up in the palette like any other
pixel_rgba_opaque0(color_idx, palette_) ==
    IF color_idx < Len(palette_) THEN palette_[color_idx + 1] \o <<255>>
    ELSE <<0, 0, 0, 255>>

\* lines 166-172 with an index beyond the palette rendered transparent
pixel_rgba_clear(color_idx, palette_) ==
    IF color_idx = 0 THEN <<0, 0, 0, 0>>
    ELSE IF color_idx < Len(palette_) THEN palette_[color_idx + 1] \o <<255>>
    ELSE <<0, 0, 0, 0>>

\* lines 166-172
pixel_rgba(color_idx, palette_) ==
    IF color_idx = 0 THEN <<0, 0, 0, 0>>
    ELSE IF color_idx < Len(palette_) THEN palette_[color_idx + 1] \o <<255>>
    ELSE <<0, 0, 0, 255>>

\* lines 160-174: the 8 pixels of row y of the tile in column tile_x_
tile_row_rgba(pixels_, y, tile_x_, palette_) ==
    [k \in 1 .. 4 * tile_size |->
        LET col_in_tile == (k - 1) \div 4
            x == tile_x_ * tile_size + col_in_tile
            color_idx == pixels_[y + 1][x + 1]
        IN  pixel_rgba(color_idx, palette_)[((k - 1) % 4) + 1]]

tiles_per_row == width \div tile_size
tiles_per_col == height \div tile_size

\* Images, palettes and metatile tables to render.
MaxTilesX == 2
MaxTilesY == 1
MaxPalKey == 2

PixelAt(x, y, seed) == (x + 3 * y + seed) % 16
Raster(w, h, seed) == [y \in 1 .. h |-> [x \in 1 .. w |-> PixelAt(x - 1, y - 1, seed)]]
PaletteColor(key, c) == <<(100 + 16 * key + c) % 256, (3 * c + key) % 256, 255 - c>>
Palette(key, n) == [c \in 1 .. n |-> PaletteColor(key, c - 1)]
PaletteSets ==
    {[key \in K |-> Palette(key, n)] : K \in SUBSET (0 .. MaxPalKey), n \in {3, 16}}
RenderRecords ==
    {[q \in 1 .. 8 |-> IF q = 2 THEN u ELSE IF q = 7 THEN v ELSE Filler] :
        u \in {TileWord(0, 1, 0, 0), TileWord(512, 2, 0, 0)},
        v \in {TileWord(1, 2, 1, 0), TileWord(513, 3, 0, 1)}}
RenderTables == {TableBytes(<<r>>, <<>>) : r \in RenderRecords} \cup {<<>>}

\* lines 124-132: what has been printed when the loop starts
RenderStartLines ==
    <<"Loading indexed PNG", "Loading palettes from", "Loaded palettes">>
    \o (IF tile_offset > 0 THEN <<"Using tile offset">> ELSE <<>>)

InitRender ==
    /\ output_png = None /\ decoded = None
    /\ width \in {tile_size * n : n \in 1 .. MaxTilesX} \cup {tile_size + 4}
    /\ height \in {tile_size * n : n \in 0 .. MaxTilesY} \cup {tile_size + 3}
    /\ (width % tile_size = 0) <=> (height % tile_size = 0)
    /\ pixels = Raster(width, height, 0)
    /\ pc = IF tiles_per_col = 0 THEN "write" ELSE "render"
    /\ palettes \in PaletteSets
    /\ tile_offset \in {0, 512}
    /\ metatiles_exists = TRUE
    /\ metatiles_data \in RenderTables
    /\ attributes_exists = FALSE /\ attributes_data = <<>>
    /\ tile_y = 0 /\ row_in_tile = 0 /\ tile_x = 0
    /\ palette_idx = None /\ palette = None
    /\ row_rgba = <<>> /\ rgba_pixels = <<>>
    /\ stdout = RenderStartLines
    /\ RenderOnly

\* lines 148-174: one pass of the loop over tile_x
RenderTile ==
    /\ pc = "render"
    /\ tile_y < tiles_per_col
    /\ tile_x < tiles_per_row
    /\ LET y == tile_y * tile_size + row_in_tile
           tile_idx_in_png == tile_y * tiles_per_row + tile_x
           tile_idx_absolute == tile_idx_in_png + tile_offset
           idx == get_tile_palette_index(metatiles_data, tile_idx_absolute)
           got == resolve_palette(palettes, idx)
       IN  /\ palette_idx' = idx
           /\ IF got.error # None
              THEN /\ pc' = "render_KeyError"
                   /\ UNCHANGED <<palette, row_rgba, tile_x>>
              ELSE /\ palette' = got.value
                   /\ row_rgba' = row_rgba \o tile_row_rgba(pixels, y, tile_x, got.value)
                   /\ tile_x' = tile_x + 1
                   /\ pc' = pc
    /\ UNCHANGED <<fileVars, imageVars, tile_y, row_in_tile, rgba_pixels, pngVars, NotRender>>

\* line 176, then the next pass of the loops over row_in_tile and tile_y
EndRow ==
    /\ pc = "render"
    /\ tile_y < tiles_per_col
    /\ tile_x = tiles_per_row
    /\ rgba_pixels' = Append(rgba_pixels, row_rgba)
    /\ row_rgba' = <<>>
    /\ tile_x' = 0
    /\ IF row_in_tile + 1 < tile_size
       THEN row_in_tile' = row_in_tile + 1 /\ tile_y' = tile_y /\ pc' = pc
       ELSE /\ row_in_tile' = 0 /\ tile_y' = tile_y + 1
            /\ pc' = IF tile_y + 1 < tiles_per_col THEN pc ELSE "write"
    /\ UNCHANGED <<fileVars, imageVars, palette_idx, palette, pngVars, NotRender>>

\* line 180, after write_rgba_png has returned
PrintRendered ==
    /\ pc = "written"
    /\ stdout' = Append(stdout, "[OK] Rendered tileset to")
    /\ pc' = "rendered"
    /\ UNCHANGED <<fileVars, renderVars, pngVars, bitsVars, borderVars, loadVars, scanVars,
                   mapVars, jascVars, readVars, restVars>>

NextRender == RenderTile \/ EndRow \/ WriteRgbaPng \/ PrintRendered

SpecRender == InitRender /\ [][NextRender]_vars

\* The output rows so far: the finished rows, then the row being built.
OutRows == rgba_pixels \o <<row_rgba>>

\* C4: every output pixel made from a source pixel of colour index 0 has alpha 0,
\* whatever palette was selected for its tile and whatever colour that palette
\* holds at index 0.
C4_IndexZeroTransparent ==
    \A r \in 1 .. Len(OutRows) :
        \A x \in 1 .. (Len(OutRows[r]) \div 4) :
            pixels[r][x] = 0 => OutRows[r][4 * x] = 0

\* A tile rendered with palette 1, whose index-0 colour is not black: the pixel
\* of index 0 is transparent, its neighbour of index 1 is opaque.
C4_Witness ==
    /\ pc = "render"
    /\ tile_x = 1 /\ Len(rgba_pixels) = 0
    /\ palette_idx = 1
    /\ palette = Palette(1, 16)
    /\ palette[1] = <<116, 1, 255>>
    /\ pixels[1][1] = 0 /\ pixels[1][2] = 1
    /\ SubSeq(row_rgba, 1, 4) = <<0, 0, 0, 0>>
    /\ row_rgba[8] = 255

\* C5 (as claimed): with at least one palette loaded, palette resolution never
\* raises; the requested key's table is used when it is loaded, the table of
\* the lowest-numbered loaded key otherwise.
C5_NeverRaises ==
    (pc \in {"render", "write", "render_KeyError"} /\ DOMAIN palettes # {}) =>
        /\ pc # "render_KeyError"
        /\ tile_x > 0 =>
              LET K == DOMAIN palettes
                  lowest == CHOOSE k \in K : \A j \in K : k <= j
              IN  palette = IF palette_idx \in K THEN palettes[palette_idx]
                            ELSE palettes[lowest]

\* Only palette 1 is loaded and the tile asks for palette 1: KeyError.
C5_Witness ==
    /\ pc = "render_KeyError"
    /\ DOMAIN palettes = {1}
    /\ palette_idx = 1

\* C9: for a pixel of colour index c # 0 and selected palette P, the output is
\* (P[c].r, P[c].g, P[c].b, 255) when c < len(P) and opaque black (0,0,0,255)
\* when c >= len(P); the tile is rendered without error.
C9_PaletteOrBlack ==
    (pc = "render" /\ tile_x > 0) =>
        LET y == Len(rgba_pixels)
        IN  \A x \in tile_size * (tile_x - 1) .. tile_size * tile_x - 1 :
                LET c == pixels[y + 1][x + 1]
                    out == SubSeq(row_rgba, 4 * x + 1, 4 * x + 4)
                IN  c # 0 =>
                        IF c < Len(palette)
                        THEN out = <<palette[c + 1][1], palette[c + 1][2],
                                     palette[c + 1][3], 255>>
                        ELSE out = <<0, 0, 0, 255>>

\* A 3-colour palette: index 2 is taken from the table, index 3 is beyond it.
C9_Witness ==
    /\ pc = "render"
    /\ tile_x = 1 /\ Len(rgba_pixels) = 0
    /\ Len(palette) = 3
    /\ pixels[1][3] = 2 /\ pixels[1][4] = 3
    /\ SubSeq(row_rgba, 9, 12) = <<palette[3][1], palette[3][2], palette[3][3], 255>>
    /\ palette[3] # <<0, 0, 0>>
    /\ SubSeq(row_rgba, 13, 16) = <<0, 0, 0, 255>>

(***************************************************************************)
(* A consumer of the container format (spec 4.3): signature, chunk walk    *)
(* with CRC check, concatenated IDAT payloads inflated, filter byte 0      *)
(* dropped from each scanline of 4 * width bytes.                          *)
(***************************************************************************)
RECURSIVE ParseChunks(_, _)
ParseChunks(data, pos) ==
    IF pos >= Len(data) THEN <<>>
    ELSE IF pos + 12 > Len(data)
    THEN <<[ok |-> FALSE, type |-> <<>>, data |-> <<>>]>>
    ELSE LET length == unpack_be32(data, pos)
         IN  IF pos + 12 + length > Len(data)
             THEN <<[ok |-> FALSE, type |-> <<>>, data |-> <<>>]>>
             ELSE LET type    == SubSeq(data, pos + 5, pos + 8)
                      payload == SubSeq(data, pos + 9, pos + 8 + length)
                      crc     == SubSeq(data, pos + 9 + length, pos + 12 + length)
                  IN  <<[ok   |-> crc = Bytes32(crc32(type \o payload)),
                         type |-> type, data |-> payload]>>
                      \o ParseChunks(data, pos + 12 + length)

RECURSIVE ConcatData(_, _, _)
ConcatData(chunks, type, k) ==
    IF k > Len(chunks) THEN <<>>
    ELSE (IF chunks[k].type = type THEN chunks[k].data ELSE <<>>)
         \o ConcatData(chunks, type, k + 1)

ReadRgbaPng(data) ==
    IF Len(data) < 8 \/ SubSeq(data, 1, 8) # PNG_SIGNATURE THEN Raise("not a PNG")
    ELSE
    LET chunks == ParseChunks(data, 8)
    IN  IF \/ \E k \in 1 .. Len(chunks) : ~chunks[k].ok
           \/ Len(chunks) < 2
           \/ chunks[1].type # IHDR
           \/ Len(chunks[1].data) # 13
           \/ chunks[Len(chunks)].type # IEND
        THEN Raise("bad chunk")
        ELSE
        LET w == unpack_be32(chunks[1].data, 0)
            h == unpack_be32(chunks[1].data, 4)
            inflated == zlib_decompress(ConcatData(chunks, IDAT, 1))
            stride == 4 * w + 1
        IN  IF \/ SubSeq(chunks[1].data, 9, 13) # <<8, 6, 0, 0, 0>>
               \/ inflated.error # None
            THEN Raise("bad image")
            ELSE IF \/ Len(inflated.value) # h * stride
                    \/ \E y \in 1 .. h : inflated.value[(y - 1) * stride + 1] # 0
            THEN Raise("bad scanlines")
            ELSE Ok([width |-> w, height |-> h,
                     rows |-> [y \in 1 .. h |->
                                 SubSeq(inflated.value, (y - 1) * stride + 2, y * stride)]])

\* RGBA rasters to write.
MaxPngWidth == 3
MaxPngHeight == 2

PngPixels == {<<0, 0, 0, 0>>, <<116, 1, 255, 254>>}
PngRows(w) ==
    {[k \in 1 .. 4 * w |-> f[((k - 1) \div 4) + 1][((k - 1) % 4) + 1]] :
        f \in [1 .. w -> PngPixels]}

InitPng ==
    /\ pc = "write"
    /\ width \in 0 .. MaxPngWidth
    /\ height \in 0 .. MaxPngHeight
    /\ rgba_pixels \in [1 .. height -> PngRows(width)]
    /\ pixels = <<>> /\ palettes = <<>> /\ tile_offset = 0
    /\ tile_y = 0 /\ row_in_tile = 0 /\ tile_x = 0
    /\ palette_idx = None /\ palette = None /\ row_rgba = <<>>
    /\ output_png = None /\ decoded = None
    /\ stdout = <<>>
    /\ FileIdle
    /\ RenderOnly

ReadBack ==
    /\ pc = "written"
    /\ decoded' = ReadRgbaPng(output_png)
    /\ pc' = "read_back"
    /\ UNCHANGED <<fileVars, renderVars, output_png, NotRender>>

NextPng == WriteRgbaPng \/ ReadBack

SpecPng == InitPng /\ [][NextPng]_vars

\* C7: what write_rgba_png writes for a width x height RGBA raster reads back,
\* through a consumer of the format, as the same width, the same height and the
\* same (R,G,B,A) at every pixel.
C7_RgbaRoundTrip ==
    pc = "read_back" =>
        /\ decoded.error = None
        /\ decoded.value.width = width
        /\ decoded.value.height = height
        /\ Len(decoded.value.rows) = height
        /\ \A y \in 1 .. height :
              /\ Len(decoded.value.rows[y]) = 4 * width
              /\ \A k \in 1 .. 4 * width : decoded.value.rows[y][k] = rgba_pixels[y][k]

C7_Witness ==
    /\ pc = "read_back"
    /\ width = 2 /\ height = 2
    /\ rgba_pixels = <<<<0, 0, 0, 0, 116, 1, 255, 254>>, <<116, 1, 255, 254, 0, 0, 0, 0>>>>
    /\ decoded.error = None
    /\ decoded.value.rows[1][5] = 116
    /\ decoded.value.rows[2][4] = 254
    /\ Len(output_png) = 8 + 25 + (12 + 11 + 18) + 12

(***************************************************************************)
(* convert_map_8x8.convert_pokeemerald_map.                                *)
(*                                                                         *)
(* A global tile id with its flip flags needs 32 bits; it is kept as       *)
(* <<high 16 bits, low 16 bits>>.  border_tiles = None is kept as the      *)
(* empty list: the code only tests the truth of border_tiles, and a loaded *)
(* border has 4 entries.                                                   *)
(***************************************************************************)
H_FLIP_BIT == <<32768, 0>>
V_FLIP_BIT == <<16384, 0>>

Or32(c, d) == <<BitOr(c[1], d[1]), BitOr(c[2], d[2])>>

load_map_bin(data, width_, height_) ==
    LET cell_count == width_ * height_
    IN  IF Len(data) < cell_count * 2 THEN Raise("struct.error")
        ELSE Ok([r \in 1 .. height_ |->
                    [c \in 1 .. width_ |->
                        unpack_le16(data, 2 * ((r - 1) * width_ + (c - 1)))]])

load_border_bin(border_file) ==
    IF ~border_file.exists THEN Raise("FileNotFoundError")
    ELSE LET data == Slice(border_file.data, 0, 8)
         IN  IF Len(data) < 8 THEN Raise("ValueError")
             ELSE Ok([k \in 1 .. 4 |-> BitAnd(unpack_le16(data, 2 * (k - 1)), 1023)])

\* lines 243-259: a missing or unreadable border file leaves border_tiles = None
load_border(border_file) ==
    IF border_file.exists
    THEN LET loaded == load_border_bin(border_file)
         IN  IF loaded.error = None THEN loaded.value ELSE <<>>
    ELSE <<>>

\* lines 261-275
load_tileset_dir(dir) ==
    IF dir.exists
    THEN load_metatiles_from_pokeemerald(dir.metatiles_bin.exists, dir.metatiles_bin.data,
                                         dir.metatile_attributes_bin.exists,
                                         dir.metatile_attributes_bin.data)
    ELSE <<>>

\* lines 277-290: the secondary records are added after the primary ones, 512 higher
combine_tilesets(primary, secondary) ==
    [mid \in (DOMAIN primary) \cup {m + 512 : m \in DOMAIN secondary} |->
        IF (mid - 512) \in DOMAIN secondary
        THEN MetatileDefinition(mid, secondary[mid - 512].tiles, secondary[mid - 512].top_tiles,
                                secondary[mid - 512].behavior, secondary[mid - 512].layer_type)
        ELSE primary[mid]]

\* Optional[TileRef]: None is the empty sequence, a reference r is <<r>>.
NoRef == <<>>
Ref(r) == <<r>>

\* lines 299-307 with the two flip bits exchanged
apply_flip_swapped(tile_ref_) ==
    IF tile_ref_ = NoRef THEN <<0, 0>>
    ELSE IF tile_ref_[1].gid = 0 THEN <<0, 0>>
    ELSE LET gid  == <<0, tile_ref_[1].gid>>
             gidh == IF tile_ref_[1].h_flip THEN Or32(gid, V_FLIP_BIT) ELSE gid
         IN  IF tile_ref_[1].v_flip THEN Or32(gidh, H_FLIP_BIT) ELSE gidh

\* lines 299-307
apply_flip(tile_ref_) ==
    IF tile_ref_ = NoRef THEN <<0, 0>>
    ELSE IF tile_ref_[1].gid = 0 THEN <<0, 0>>
    ELSE LET gid  == <<0, tile_ref_[1].gid>>
             gidh == IF tile_ref_[1].h_flip THEN Or32(gid, H_FLIP_BIT) ELSE gid
         IN  IF tile_ref_[1].v_flip THEN Or32(gidh, V_FLIP_BIT) ELSE gidh

\* lines 315-320 with a missing record resolved to the lowest record of the tileset
cell_refs_lowest(tileset_, metatile_id, tile_index) ==
    IF metatile_id \in DOMAIN tileset_
    THEN <<Ref(tileset_[metatile_id].tiles[tile_index + 1]),
           Ref(tileset_[metatile_id].top_tiles[tile_index + 1])>>
    ELSE IF DOMAIN tileset_ # {}
    THEN LET m == CHOOSE i \in DOMAIN tileset_ : \A j \in DOMAIN tileset_ : i <= j
         IN  <<Ref(tileset_[m].tiles[tile_index + 1]),
               Ref(tileset_[m].top_tiles[tile_index + 1])>>
    ELSE <<NoRef, NoRef>>

\* lines 315-320: bottom_ref and top_ref of one tile
cell_refs(tileset_, metatile_id, tile_index) ==
    IF metatile_id \in DOMAIN tileset_
    THEN LET metatile == tileset_[metatile_id]
         IN  <<IF Len(metatile.tiles) > tile_index
               THEN Ref(metatile.tiles[tile_index + 1]) ELSE NoRef,
               IF Len(metatile.top_tiles) > tile_index
               THEN Ref(metatile.top_tiles[tile_index + 1]) ELSE NoRef>>
    ELSE <<NoRef, NoRef>>

\* line 313 with the two coordinates exchanged
tile_index_of_transposed(x, y) == (x % 2) * 2 + (y % 2)

\* line 313
tile_index_of(x, y) == (y % 2) * 2 + (x % 2)

\* convert_tileset_8x8.Metatile.get_tile_at_position, lines 172-180
positions == [top_left |-> 0, top_right |-> 1, bottom_left |-> 2, bottom_right |-> 3]
get_tile_at_position(tiles, position) == tiles[positions[position] + 1]

width_tiles == width_metatiles * 2
height_tiles == height_metatiles * 2

\* lines 389-420: one object per map block, row by row
metatile_object_transposed(tileset_, raw_value, mx, my, object_id) ==
    LET metatile_id    == BitAnd(raw_value, 1023)
        collision_bits == BitAnd(Shr(raw_value, 10), 3)
        elevation      == BitAnd(Shr(raw_value, 12), 15)
    IN  [id |-> object_id, name |-> metatile_id, x |-> my * 16, y |-> mx * 16,
         width |-> 16, height |-> 16,
         metatile_id |-> metatile_id, collision_bits |-> collision_bits,
         is_solid |-> (collision_bits = 3), elevation |-> elevation,
         has_definition |-> (metatile_id \in DOMAIN tileset_),
         behavior |-> IF metatile_id \in DOMAIN tileset_
                      THEN tileset_[metatile_id].behavior ELSE 0,
         layer_type |-> IF metatile_id \in DOMAIN tileset_
                        THEN tileset_[metatile_id].layer_type ELSE 0]

metatile_object(tileset_, raw_value, mx, my, object_id) ==
    LET metatile_id    == BitAnd(raw_value, 1023)
        collision_bits == BitAnd(Shr(raw_value, 10), 3)
        elevation      == BitAnd(Shr(raw_value, 12), 15)
    IN  [id |-> object_id, name |-> metatile_id, x |-> mx * 16, y |-> my * 16,
         width |-> 16, height |-> 16,
         metatile_id |-> metatile_id, collision_bits |-> collision_bits,
         is_solid |-> (collision_bits = 3), elevation |-> elevation,
         has_definition |-> (metatile_id \in DOMAIN tileset_),
         behavior |-> IF metatile_id \in DOMAIN tileset_
                      THEN tileset_[metatile_id].behavior ELSE 0,
         layer_type |-> IF metatile_id \in DOMAIN tileset_
                        THEN tileset_[metatile_id].layer_type ELSE 0]

metatile_objects ==
    [k \in 1 .. (width_metatiles * height_metatiles) |->
        LET my == (k - 1) \div width_metatiles
            mx == (k - 1) % width_metatiles
        IN  metatile_object(tileset, map_data[my + 1][mx + 1], mx, my, k)]

\* lines 326-387 and 422-430
build_tiled_map ==
    [width |-> width_tiles, height |-> height_tiles,
     layers |-> <<[id |-> 1, name |-> "Ground Layer", data |-> bottom_layer_data],
                  [id |-> 2, name |-> "Overlay Layer", data |-> top_layer_data],
                  [id |-> 3, name |-> "MetatileData", objects |-> metatile_objects]>>,
     tilesets |-> IF DOMAIN secondary_tileset # {} THEN <<1, 513>> ELSE <<1>>,
     properties |-> IF border_tiles # <<>>
                    THEN <<[name |-> "border_pattern_metatiles", value |-> border_tiles]>>
                    ELSE <<>>]

(***************************************************************************)
(* The map converter on bounded files.                                     *)
(***************************************************************************)
MaxMapWidth == 2
MaxMapHeight == 2

\* raw map blocks: ids 0, 1, 5, 0 (the border scenario), a secondary id with the
\* collision bits set, an id no tileset holds, with an elevation, and the first
\* id of the secondary range
MapWords == <<0, 1, 5, 0, 513 + 3072, 700 + 12288, 512>>
MapSeeds == {0, 2, 4}
MapWord(k, seed) == MapWords[((k + seed) % Len(MapWords)) + 1]
MapBytes(n, seed) ==
    [b \in 1 .. n |->
        IF b % 2 = 1 THEN MapWord((b - 1) \div 2, seed) % 256
        ELSE MapWord((b - 1) \div 2, seed) \div 256]
MapBins(w, h) ==
    {MapBytes(n, seed) :
        n \in {2 * w * h + 1} \cup (IF w * h > 0 THEN {2 * w * h - 2} ELSE {}),
        seed \in MapSeeds}

File(data) == [exists |-> TRUE, data |-> data]
\* the border [2,3,4,5], with flag bits above the id in two entries
BorderFiles ==
    {NoFile,
     File(<<2, 4, 3, 0, 4, 16, 5>>),
     File(<<2, 4, 3, 0, 4, 16, 5, 0, 9, 9>>)}

TilesetBytes(n, shift) == [k \in 1 .. n |-> MetaByte(k - 1 + shift)]
PrimaryDirs ==
    {[exists |-> TRUE, metatiles_bin |-> NoFile, metatile_attributes_bin |-> NoFile],
     [exists |-> TRUE, metatiles_bin |-> File(TilesetBytes(96, 0)),
      metatile_attributes_bin |-> File(<<7, 147, 147, 0, 7>>)],
     [exists |-> TRUE, metatiles_bin |-> File(TilesetBytes(16 * 513, 0)),
      metatile_attributes_bin |-> NoFile]}
SecondaryDirs ==
    {NoDir,
     [exists |-> TRUE, metatiles_bin |-> File(TilesetBytes(32, 100)),
      metatile_attributes_bin |-> NoFile]}

InitMap ==
    /\ pc = "convert"
    /\ width_metatiles \in 0 .. MaxMapWidth
    /\ height_metatiles \in 0 .. MaxMapHeight
    /\ map_bin \in MapBins(width_metatiles, height_metatiles)
    /\ border_bin \in BorderFiles
    /\ primary_tileset_dir \in PrimaryDirs
    /\ secondary_tileset_dir \in SecondaryDirs
    /\ map_data = <<>> /\ primary_tileset = None /\ secondary_tileset = None
    /\ map_y = 0 /\ map_x = 0 /\ bottom_layer_data = <<>> /\ top_layer_data = <<>>
    /\ tiled_map = None
    /\ MapOnly

\* lines 219-292: read the map, the border and the tilesets, merge the tilesets
LoadMap ==
    /\ pc = "convert"
    /\ LET loaded == load_map_bin(map_bin, width_metatiles, height_metatiles)
       IN  IF loaded.error # None
           THEN /\ pc' = "convert_struct.error"
                /\ UNCHANGED <<width_metatiles, height_metatiles, map_data, border_tiles,
                               primary_tileset, secondary_tileset, tileset>>
           ELSE /\ map_data' = loaded.value
                /\ height_metatiles' = Len(loaded.value)
                /\ width_metatiles' = IF Len(loaded.value) > 0 THEN Len(loaded.value[1]) ELSE 0
                /\ border_tiles' = load_border(border_bin)
                /\ primary_tileset' = load_tileset_dir(primary_tileset_dir)
                /\ secondary_tileset' = load_tileset_dir(secondary_tileset_dir)
                /\ tileset' = combine_tilesets(primary_tileset', secondary_tileset')
                /\ pc' = "tiles"
    /\ UNCHANGED <<mapFileVars, map_y, map_x, bottom_layer_data, top_layer_data, tiled_map,
                   NotMap>>

\* lines 309-323: one turn of the inner loop
AppendTile ==
    /\ pc = "tiles"
    /\ map_y < height_tiles /\ map_x < width_tiles
    /\ LET raw_value   == map_data[(map_y \div 2) + 1][(map_x \div 2) + 1]
           metatile_id == BitAnd(raw_value, 1023)
           tile_index  == tile_index_of(map_x, map_y)
           refs        == cell_refs(tileset, metatile_id, tile_index)
       IN  /\ bottom_layer_data' = Append(bottom_layer_data, apply_flip(refs[1]))
           /\ top_layer_data' = Append(top_layer_data, apply_flip(refs[2]))
    /\ IF map_x + 1 < width_tiles
       THEN map_x' = map_x + 1 /\ map_y' = map_y
       ELSE map_x' = 0 /\ map_y' = map_y + 1
    /\ UNCHANGED <<pc, width_metatiles, height_metatiles, mapFileVars, map_data, border_tiles,
                   primary_tileset, secondary_tileset, tileset, tiled_map, NotMap>>

\* lines 326-434: after the loop, build the document and write it
WriteMap ==
    /\ pc = "tiles"
    /\ ~(map_y < height_tiles /\ map_x < width_tiles)
    /\ tiled_map' = build_tiled_map
    /\ pc' = "map_written"
    /\ UNCHANGED <<width_metatiles, height_metatiles, mapFileVars, map_data, border_tiles,
                   primary_tileset, secondary_tileset, tileset, map_y, map_x,
                   bottom_layer_data, top_layer_data, NotMap>>

NextMap == LoadMap \/ AppendTile \/ WriteMap

SpecMap == InitMap /\ [][NextMap]_vars

\* The map block and the sub-position behind the k-th entry of the layer data.
BlockOf(k) == map_data[(((k - 1) \div width_tiles) \div 2) + 1][(((k - 1) % width_tiles) \div 2) + 1]
SubOf(k) == (((k - 1) \div width_tiles) % 2) * 2 + (((k - 1) % width_tiles) % 2)
\* The global tile id a TileRef stands for.
GidOf(ref) == <<32768 * B2N(ref.h_flip) + 16384 * B2N(ref.v_flip), ref.gid>>

\* C6: when a border pattern is loaded, every map cell (x,y) whose metatile id is
\* 0 or 1 carries the tile references of the border metatile
\* border[((x+1) mod 2) + ((y+1) mod 2)*2], and every other cell carries the
\* references of its own metatile.
C6_BorderFallbackApplied ==
    (/\ pc = "map_written"
     /\ border_tiles # <<>>
     /\ \A i \in 1 .. 4 : border_tiles[i] \in DOMAIN tileset)
    => \A k \in 1 .. Len(bottom_layer_data) :
          LET ty == (k - 1) \div width_tiles
              tx == (k - 1) % width_tiles
              x  == tx \div 2
              y  == ty \div 2
              id == BlockOf(k) % 1024
              shown == IF id <= 1
                       THEN border_tiles[((x + 1) % 2) + ((y + 1) % 2) * 2 + 1]
                       ELSE id
          IN  shown \in DOMAIN tileset
              => /\ bottom_layer_data[k] = GidOf(tileset[shown].tiles[SubOf(k) + 1])
                 /\ top_layer_data[k] = GidOf(tileset[shown].top_tiles[SubOf(k) + 1])

\* Grid [0,1,5,0] with border [2,3,4,5] converted: cell (0,0) carries the
\* references of metatile 0, which differ from those of border metatile 5.
C6_Witness ==
    /\ pc = "map_written"
    /\ width_metatiles = 2 /\ height_metatiles = 2
    /\ [r \in 1 .. 2 |-> [c \in 1 .. 2 |-> map_data[r][c] % 1024]] = <<<<0, 1>>, <<5, 0>>>>
    /\ border_tiles = <<2, 3, 4, 5>>
    /\ 5 \in DOMAIN tileset
    /\ bottom_layer_data[1] = GidOf(tileset[0].tiles[1])
    /\ bottom_layer_data[1] # GidOf(tileset[5].tiles[1])

\* C10: a map cell whose metatile id has no record in the merged tileset yields
\* reference 0 in the ground and in the overlay layer at all 4 of its
\* sub-positions; the cells that have a record carry their record's references,
\* the loop never stops early and the document holds every tile.
C10_MissingMetatileZero ==
    /\ pc \in {"tiles", "map_written"}
       => /\ Len(bottom_layer_data) = map_y * width_tiles + map_x
          /\ Len(top_layer_data) = Len(bottom_layer_data)
          /\ \A k \in 1 .. Len(bottom_layer_data) :
                IF (BlockOf(k) % 1024) \in DOMAIN tileset
                THEN /\ bottom_layer_data[k] =
                            GidOf(tileset[BlockOf(k) % 1024].tiles[SubOf(k) + 1])
                     /\ top_layer_data[k] =
                            GidOf(tileset[BlockOf(k) % 1024].top_tiles[SubOf(k) + 1])
                ELSE /\ bottom_layer_data[k] = <<0, 0>>
                     /\ top_layer_data[k] = <<0, 0>>
    /\ pc = "tiles" => ENABLED (AppendTile \/ WriteMap)
    /\ pc = "map_written"
       => /\ Len(bottom_layer_data) = width_tiles * height_tiles
          /\ tiled_map.layers[1].data = bottom_layer_data
          /\ tiled_map.layers[2].data = top_layer_data
    /\ pc = "convert_struct.error"
       => Len(map_bin) < 2 * width_metatiles * height_metatiles

\* A 2x2 map converted to the end in which block (1,0) names metatile 700, which no
\* tileset holds, next to blocks that have a record.
C10_Witness ==
    /\ pc = "map_written"
    /\ width_metatiles = 2 /\ height_metatiles = 2
    /\ map_data[1][2] % 1024 = 700
    /\ 700 \notin DOMAIN tileset
    /\ map_data[1][1] % 1024 \in DOMAIN tileset
    /\ \A k \in {3, 4, 7, 8} : bottom_layer_data[k] = <<0, 0>> /\ top_layer_data[k] = <<0, 0>>
    /\ bottom_layer_data[1] # <<0, 0>>
    /\ Len(bottom_layer_data) = 16

\* The TileBitfield q (0..7) of the metatile behind the k-th layer entry, read
\* from the bytes of the metatiles.bin that holds the record.
FileOf(id) ==
    IF (id - 512) \in DOMAIN secondary_tileset
    THEN secondary_tileset_dir.metatiles_bin.data
    ELSE primary_tileset_dir.metatiles_bin.data
RecordOf(id) == IF (id - 512) \in DOMAIN secondary_tileset THEN id - 512 ELSE id
TileBitfield(k, q) ==
    unpack_le16(FileOf(BlockOf(k) % 1024), 16 * RecordOf(BlockOf(k) % 1024) + 2 * q)
\* The value the claim prescribes for a TileBitfield: tile index + 1 in the low
\* bits, bit 31 for h_flip (bit 10), bit 30 for v_flip (bit 11), nothing else.
Emitted(w) == <<32768 * ((w \div 1024) % 2) + 16384 * ((w \div 2048) % 2), (w % 1024) + 1>>

\* C11: for every map cell whose metatile has a record and each sub-position q,
\* the ground layer entry comes from TileBitfield q and the overlay entry from
\* TileBitfield 4+q of the record; each has low bits tile_index+1, bit 31 set
\* exactly when h_flip is set, bit 30 exactly when v_flip is set, and no other
\* high bit.
C11_TwoStackedReferences ==
    pc \in {"tiles", "map_written"}
    => \A k \in 1 .. Len(bottom_layer_data) :
          (BlockOf(k) % 1024) \in DOMAIN tileset
          => /\ bottom_layer_data[k] = Emitted(TileBitfield(k, SubOf(k)))
             /\ top_layer_data[k] = Emitted(TileBitfield(k, 4 + SubOf(k)))

\* A written map whose ground layer holds an unflipped tile, an h-flipped one,
\* a v-flipped one and one flipped both ways, and whose overlay differs.
C11_Witness ==
    /\ pc = "map_written"
    /\ Len(bottom_layer_data) >= 4
    /\ \E k \in 1 .. Len(bottom_layer_data) : bottom_layer_data[k][1] = 0 /\ bottom_layer_data[k][2] > 0
    /\ \E k \in 1 .. Len(bottom_layer_data) : bottom_layer_data[k][1] = 32768
    /\ \E k \in 1 .. Len(bottom_layer_data) : bottom_layer_data[k][1] = 16384
    /\ \E k \in 1 .. Len(bottom_layer_data) : bottom_layer_data[k][1] = 49152
    /\ \E k \in 1 .. Len(top_layer_data) :
          top_layer_data[k][2] > 0 /\ top_layer_data[k] # bottom_layer_data[k]

\* The corner of a 2x2 block at column dx, row dy.
Corner(dx, dy) ==
    IF dy = 0 THEN (IF dx = 0 THEN "top_left" ELSE "top_right")
    ELSE (IF dx = 0 THEN "bottom_left" ELSE "bottom_right")
\* The raw block of map cell (cx, cy), read from the bytes of map.bin.
CellWord(cx, cy) == unpack_le16(map_bin, 2 * (cy * width_metatiles + cx))

\* C12: quadrant order is preserved end to end: the tile at tile-grid position
\* (x,y) is quadrant (y mod 2)*2 + (x mod 2) of the metatile of map cell
\* (x div 2, y div 2), so quadrants 0,1,2,3 land top-left, top-right,
\* bottom-left, bottom-right of the cell's block, and both layers are row-major
\* with row length 2*map_width.
C12_QuadrantOrder ==
    pc = "map_written"
    => /\ Len(bottom_layer_data) = (2 * width_metatiles) * (2 * height_metatiles)
       /\ Len(top_layer_data) = (2 * width_metatiles) * (2 * height_metatiles)
       /\ \A cx \in 0 .. width_metatiles - 1 : \A cy \in 0 .. height_metatiles - 1 :
          \A dx \in {0, 1} : \A dy \in {0, 1} :
             LET id == CellWord(cx, cy) % 1024
                 x == 2 * cx + dx
                 y == 2 * cy + dy
                 k == y * (2 * width_metatiles) + x + 1
             IN  /\ positions[Corner(dx, dy)] = (y % 2) * 2 + (x % 2)
                 /\ id \in DOMAIN tileset
                    => /\ bottom_layer_data[k] =
                              GidOf(get_tile_at_position(tileset[id].tiles, Corner(dx, dy)))
                       /\ top_layer_data[k] =
                              GidOf(get_tile_at_position(tileset[id].top_tiles, Corner(dx, dy)))

\* A written 2x2 map whose cell (1,1) has a record with four different quadrants,
\* found at entries 11, 12, 15, 16 of the ground layer (rows of 4).
C12_Witness ==
    /\ pc = "map_written"
    /\ width_metatiles = 2 /\ height_metatiles = 2
    /\ (map_data[2][2] % 1024) \in DOMAIN tileset
    /\ LET t == tileset[map_data[2][2] % 1024].tiles
       IN  /\ Cardinality({t[q] : q \in 1 .. 4}) = 4
           /\ bottom_layer_data[11] = GidOf(t[1])
           /\ bottom_layer_data[12] = GidOf(t[2])
           /\ bottom_layer_data[15] = GidOf(t[3])
           /\ bottom_layer_data[16] = GidOf(t[4])
    /\ map_data[1][1] # map_data[2][2]

\* C13: in the merged lookup space primary record i is found under id i and
\* secondary record j under id j+512, and no id is claimed by both sources, for
\* every number of primary and secondary records: every primary record is still
\* returned for its own id after the secondary source has been merged.
C13_NoCollision ==
    pc \in {"tiles", "map_written"}
    => /\ \A i \in DOMAIN primary_tileset :
             i \in DOMAIN tileset /\ tileset[i] = primary_tileset[i]
       /\ \A j \in DOMAIN secondary_tileset :
             /\ (j + 512) \in DOMAIN tileset
             /\ tileset[j + 512].tiles = secondary_tileset[j].tiles
             /\ tileset[j + 512].top_tiles = secondary_tileset[j].top_tiles
       /\ (DOMAIN primary_tileset) \cap {j + 512 : j \in DOMAIN secondary_tileset} = {}

\* A primary tileset of 513 records merged with a secondary one: id 512 returns
\* the first secondary record, and primary record 512 is lost; a map block
\* naming 512 has been converted with the secondary record.
C13_Witness ==
    /\ pc = "map_written"
    /\ 512 \in DOMAIN primary_tileset
    /\ 0 \in DOMAIN secondary_tileset
    /\ tileset[512].tiles = secondary_tileset[0].tiles
    /\ tileset[512].tiles # primary_tileset[512].tiles
    /\ \E k \in 1 .. Len(bottom_layer_data) :
          /\ BlockOf(k) % 1024 = 512
          /\ bottom_layer_data[k] = GidOf(secondary_tileset[0].tiles[SubOf(k) + 1])
          /\ bottom_layer_data[k] # GidOf(primary_tileset[512].tiles[SubOf(k) + 1])

\* C14: for a metatile or attribute buffer whose length is not a multiple of the
\* record size, each loader returns the records decoded from the whole-record
\* prefix, ignores the trailing remainder, builds no record from a partial one
\* and raises no error.
C14_RemainderDiscarded ==
    LET L  == Len(attributes_data)
        N8 == Len(metatiles_data) \div 8
        N16 == Len(metatiles_data) \div 16
    IN  (/\ pc = "load_done"
         /\ metatiles_exists
         /\ (Len(metatiles_data) % 8 # 0 \/ Len(metatiles_data) % 16 # 0
             \/ (attributes_exists /\ (L % 4 # 0 \/ L % 2 # 0))))
        => /\ metatiles.error = None
           /\ Len(metatiles.value) = N8
           /\ \A i \in 0 .. N8 - 1 :
                 /\ metatiles.value[i + 1].tiles =
                        [q \in 1 .. 4 |-> unpack_le16(metatiles_data, 8 * i + 2 * (q - 1))]
                 /\ (4 * i + 4 > L) =>
                        metatiles.value[i + 1].attributes =
                            [behavior |-> 0, terrain |-> 0,
                             encounter_type |-> 0, layer_type |-> 0]
           /\ DOMAIN tileset = 0 .. N16 - 1
           /\ \A i \in 0 .. N16 - 1 :
                 (2 * i + 2 > L) => tileset[i].behavior = 0 /\ tileset[i].layer_type = 0

\* load_metatiles on a 13-byte metatiles.bin has raised struct.error on the 5
\* trailing bytes, while the 16-byte-record loader has returned no record.
C14_Witness ==
    /\ pc = "load_done"
    /\ Len(metatiles_data) = 13
    /\ metatiles.error = "struct.error"
    /\ DOMAIN tileset = {}

(***************************************************************************)
(* load_jasc_palette (three copies).  A .pal file is a sequence of lines;  *)
(* a line is the sequence of its whitespace-separated fields, so a blank   *)
(* line is <<>> and line.strip() == "JASC-PAL" is line = <<"JASC-PAL">>.   *)
(***************************************************************************)
\* int() on the fields that occur in the files below; any other field raises
IntFields ==
    [f \in {"0", "1", "2", "3", "16", "255", "256", "-1", "0100"} |->
        CASE f = "0" -> 0 [] f = "1" -> 1 [] f = "2" -> 2 [] f = "3" -> 3
          [] f = "16" -> 16 [] f = "255" -> 255 [] f = "256" -> 256
          [] f = "-1" -> 0 - 1 [] f = "0100" -> 100]
int(field) == IF field \in DOMAIN IntFields THEN Ok(IntFields[field]) ELSE Raise("ValueError")

\* int(line) on a whole stripped line: a line of several fields is no integer
int_line(line) == IF Len(line) = 1 THEN int(line[1]) ELSE Raise("ValueError")

\* line 25: r, g, b = map(int, lines[line_idx].split())
parse_color(line) ==
    IF Len(line) # 3 THEN Raise("ValueError")
    ELSE IF \E q \in 1 .. 3 : int(line[q]).error # None THEN Raise("ValueError")
    ELSE Ok(<<int(line[1]).value, int(line[2]).value, int(line[3]).value>>)

\* line 14: the stripped non-blank lines
non_blank(file) == SelectSeq(file, LAMBDA line : line # <<>>)

\* lines 22-26 with a missing colour line raising instead of being skipped
read_colors_strict(lines, num_colors) ==
    LET n == IF num_colors < 0 THEN 0 ELSE num_colors
    IN  IF Len(lines) - 3 < n THEN Raise("IndexError")
        ELSE LET rows == [i \in 1 .. n |-> parse_color(lines[3 + i])]
             IN  IF \E i \in 1 .. n : rows[i].error # None THEN Raise("ValueError")
                 ELSE Ok([i \in 1 .. n |-> rows[i].value])

\* lines 22-26: one triple per colour line that exists, up to num_colors
read_colors(lines, num_colors) ==
    LET avail == IF Len(lines) > 3 THEN Len(lines) - 3 ELSE 0
        n == IF num_colors < 0 THEN 0 ELSE Min(num_colors, avail)
        rows == [i \in 1 .. n |-> parse_color(lines[3 + i])]
    IN  IF \E i \in 1 .. n : rows[i].error # None THEN Raise("ValueError")
        ELSE Ok([i \in 1 .. n |-> rows[i].value])

\* lines 16-17 with any first line accepted as the header
check_header_any(lines) ==
    IF Len(lines) = 0 THEN Raise("IndexError") ELSE Ok(<<>>)

\* lines 16-17: lines[0] != "JASC-PAL"
check_header(lines) ==
    IF Len(lines) = 0 THEN Raise("IndexError")
    ELSE IF lines[1] # <<"JASC-PAL">> THEN Raise("ValueError")
    ELSE Ok(<<>>)

\* render_tileset_with_palettes.load_jasc_palette, lines 11-28
load_jasc_palette(file) ==
    LET lines == non_blank(file)
    IN  IF check_header(lines).error # None THEN check_header(lines)
        ELSE IF Len(lines) < 3 THEN Raise("IndexError")
        ELSE IF int_line(lines[3]).error # None THEN Raise("ValueError")
        ELSE read_colors(lines, int_line(lines[3]).value)

\* apply_palettes.load_jasc_palette, lines 11-36: version = lines[1] is read first
load_jasc_palette_apply(file) ==
    LET lines == non_blank(file)
    IN  IF check_header(lines).error # None THEN check_header(lines)
        ELSE IF Len(lines) < 2 THEN Raise("IndexError")
        ELSE IF Len(lines) < 3 THEN Raise("IndexError")
        ELSE IF int_line(lines[3]).error # None THEN Raise("ValueError")
        ELSE read_colors(lines, int_line(lines[3]).value)

\* replace_png_palette.load_jasc_palette, lines 11-28
load_jasc_palette_replace(file) ==
    LET lines == non_blank(file)
    IN  IF check_header(lines).error # None THEN check_header(lines)
        ELSE IF Len(lines) < 3 THEN Raise("IndexError")
        ELSE IF int_line(lines[3]).error # None THEN Raise("ValueError")
        ELSE read_colors(lines, int_line(lines[3]).value)

(***************************************************************************)
(* The palette loaders on bounded files.                                   *)
(***************************************************************************)
MaxPalColors == 2

ColorLines ==
    {<<"1", "2", "3">>, <<"0", "255", "16">>, <<"256", "0", "0">>, <<"-1", "0", "0">>,
     <<"1", "2">>, <<"x", "0", "0">>}
HeaderLines == {<<<<"JASC-PAL">>>>, <<<<"GIMP">>>>, <<>>}
VersionLines == {<<<<"0100">>>>, <<>>}
CountLines == {<<<<"2">>>>, <<<<"1">>>>, <<<<"1", "6">>>>, <<>>}
ColorBlocks == UNION {[1 .. n -> ColorLines] : n \in 0 .. MaxPalColors}
PalFiles ==
    {b \o h \o v \o b \o c \o rows :
        b \in {<<>>, <<<<>>>>}, h \in HeaderLines, v \in VersionLines,
        c \in CountLines, rows \in ColorBlocks}

InitJasc ==
    /\ pc = "pal"
    /\ pal_file \in PalFiles
    /\ palette_render = None /\ palette_apply = None /\ palette_replace = None
    /\ JascOnly

LoadJascPaletteRender ==
    /\ pc = "pal"
    /\ palette_render' = load_jasc_palette(pal_file)
    /\ pc' = "pal_apply"
    /\ UNCHANGED <<pal_file, palette_apply, palette_replace, NotJasc>>

LoadJascPaletteApply ==
    /\ pc = "pal_apply"
    /\ palette_apply' = load_jasc_palette_apply(pal_file)
    /\ pc' = "pal_replace"
    /\ UNCHANGED <<pal_file, palette_render, palette_replace, NotJasc>>

LoadJascPaletteReplace ==
    /\ pc = "pal_replace"
    /\ palette_replace' = load_jasc_palette_replace(pal_file)
    /\ pc' = "pal_done"
    /\ UNCHANGED <<pal_file, palette_render, palette_apply, NotJasc>>

NextJasc == LoadJascPaletteRender \/ LoadJascPaletteApply \/ LoadJascPaletteReplace

SpecJasc == InitJasc /\ [][NextJasc]_vars

\* The first non-blank line of the file, if any, is the header token.
HeaderPresent ==
    \E k \in 1 .. Len(pal_file) :
        /\ pal_file[k] = <<"JASC-PAL">>
        /\ \A j \in 1 .. k - 1 : pal_file[j] = <<>>

\* C15: loading a file whose first non-blank line is not the header token
\* JASC-PAL, an empty file included, fails with an error and returns no palette,
\* in all three copies of load_jasc_palette.
C15_BadHeaderFails ==
    (pc = "pal_done" /\ ~HeaderPresent)
    => /\ palette_render.error # None /\ palette_render.value = <<>>
       /\ palette_apply.error # None /\ palette_apply.value = <<>>
       /\ palette_replace.error # None /\ palette_replace.value = <<>>

\* A file that starts with GIMP and otherwise holds a version, a count and two
\* good colour lines has been refused by the three loaders.
C15_Witness ==
    /\ pc = "pal_done"
    /\ pal_file = <<<<"GIMP">>, <<"0100">>, <<"2">>, <<"1", "2", "3">>, <<"0", "255", "16">>>>
    /\ palette_render.error = "ValueError"
    /\ palette_apply.error = "ValueError"
    /\ palette_replace.error = "ValueError"

\* The count declared by a file with a valid header, version and count line.
DeclaredCount == IntFields[non_blank(pal_file)[3][1]]
ValidHead ==
    /\ Len(non_blank(pal_file)) >= 3
    /\ non_blank(pal_file)[1] = <<"JASC-PAL">>
    /\ Len(non_blank(pal_file)[3]) = 1
    /\ non_blank(pal_file)[3][1] \in DOMAIN IntFields
    /\ DeclaredCount >= 0
ExactTable(result) ==
    /\ Len(result.value) = DeclaredCount
    /\ \A i \in 1 .. Len(result.value) : \A q \in 1 .. 3 : result.value[i][q] \in 0 .. 255

\* C16: loading a file with a valid header and count line `count` either
\* returns exactly `count` RGB triples with every component in 0..255 or fails
\* with an error; it never returns a table shorter than `count` or holding an
\* out-of-range component.
C16_CountExactOrError ==
    (pc = "pal_done" /\ ValidHead)
    => /\ palette_render.error # None \/ ExactTable(palette_render)
       /\ palette_apply.error # None \/ ExactTable(palette_apply)

\* A file declaring 2 colours and holding one colour line has been loaded as a
\* table of one triple by both loaders.
C16_Witness ==
    /\ pc = "pal_done"
    /\ pal_file = <<<<"JASC-PAL">>, <<"0100">>, <<"2">>, <<"1", "2", "3">>>>
    /\ palette_render = Ok(<<<<1, 2, 3>>>>)
    /\ palette_apply = Ok(<<<<1, 2, 3>>>>)

(***************************************************************************)
(* render_tileset_with_palettes.read_png_indexed_data and                  *)
(* replace_png_palette.replace_png_palette.  An optional value (None or    *)
(* bytes) is <<>> or <<bytes>>.                                            *)
(***************************************************************************)
\* the test with only the letters P N G compared
check_signature_letters(png_data) == Slice(png_data, 1, 4) = <<80, 78, 71>>

\* line 47 / replace_png_palette line 43: png_data[:8] == b'\x89PNG\r\n\x1a\n'
check_signature(png_data) == Slice(png_data, 0, 8) = PNG_SIGNATURE

\* lines 57-68: the chunk walk, keeping the last PLTE payload and all IDAT payloads
RECURSIVE read_chunks(_, _, _)
read_chunks(png_data, pos, found) ==
    IF pos >= Len(png_data) THEN Ok(found)
    ELSE IF Len(png_data) - pos < 4 THEN Raise("struct.error")
    ELSE LET length     == unpack_be32(png_data, pos)
             chunk_type == Slice(png_data, pos + 4, pos + 8)
             chunk_data == Slice(png_data, pos + 8, pos + 8 + length)
         IN  read_chunks(png_data, pos + 12 + length,
                 IF chunk_type = PLTE THEN [found EXCEPT !.palette_data = <<chunk_data>>]
                 ELSE IF chunk_type = IDAT
                 THEN [found EXCEPT !.idat_data = @ \o chunk_data]
                 ELSE found)

\* lines 85-87 with the low nibble taken as the first pixel
unpack_nibbles_low_first(byte_val) == <<byte_val % 16, (byte_val \div 16) % 16>>

\* lines 85-87: pixel1, pixel2 of one byte
unpack_nibbles(byte_val) == <<BitAnd(Shr(byte_val, 4), 15), BitAnd(byte_val, 15)>>

\* lines 76-90: the rows of colour indices
unpack_rows(raw_data, width_, height_) ==
    LET bytes_per_scanline == (width_ + 1) \div 2
    IN  [row \in 1 .. height_ |->
            LET scanline_start == (row - 1) * (bytes_per_scanline + 1) + 1
                scanline_data  == Slice(raw_data, scanline_start,
                                        scanline_start + bytes_per_scanline)
                row_pixels == [k \in 1 .. 2 * Len(scanline_data) |->
                                  unpack_nibbles(scanline_data[(k + 1) \div 2])[2 - (k % 2)]]
            IN  Slice(row_pixels, 0, width_)]

\* lines 38-92
read_png_indexed_data(png_data) ==
    IF ~check_signature(png_data) THEN Raise("ValueError")
    ELSE IF Len(png_data) < 24 THEN Raise("struct.error")
    ELSE LET width_  == unpack_be32(png_data, 16)
             height_ == unpack_be32(png_data, 20)
             chunks  == read_chunks(png_data, 8, [palette_data |-> <<>>, idat_data |-> <<>>])
         IN  IF chunks.error # None THEN Raise(chunks.error)
             ELSE LET raw_data == zlib_decompress(chunks.value.idat_data)
                  IN  IF raw_data.error # None THEN Raise("zlib.error")
                      ELSE Ok([width |-> width_, height |-> height_,
                               pixels |-> unpack_rows(raw_data.value, width_, height_),
                               palette_data |-> chunks.value.palette_data])

\* a payload of the first colour alone
plte_first_colour(palette_, k) == IF k > Len(palette_) THEN <<>> ELSE palette_[k]

\* replace_png_palette lines 60-65: the bytes of the new PLTE payload
RECURSIVE plte_bytes(_, _)
plte_bytes(palette_, k) ==
    IF k > Len(palette_) THEN <<>> ELSE palette_[k] \o plte_bytes(palette_, k + 1)

\* replace_png_palette lines 53-82: the chunk walk that copies or replaces
RECURSIVE replace_chunks(_, _, _)
replace_chunks(png_data, pos, palette_) ==
    IF pos >= Len(png_data) THEN Ok(<<>>)
    ELSE IF Len(png_data) - pos < 4 THEN Raise("struct.error")
    ELSE LET length     == unpack_be32(png_data, pos)
             chunk_type == Slice(png_data, pos + 4, pos + 8)
             rest       == replace_chunks(png_data, pos + 12 + length, palette_)
             new_plte_data == plte_bytes(palette_, 1)
         IN  IF chunk_type = PLTE /\ \E k \in 1 .. Len(new_plte_data) :
                                        new_plte_data[k] \notin 0 .. 255
             THEN Raise("ValueError")
             ELSE IF rest.error # None THEN rest
             ELSE IF chunk_type = PLTE
             THEN Ok(pack_be32(Len(new_plte_data)) \o PLTE \o new_plte_data
                     \o Bytes32(crc32(PLTE \o new_plte_data)) \o rest.value)
             ELSE Ok(Slice(png_data, pos, pos + 12 + length) \o rest.value)

\* replace_png_palette lines 30-91, after the palette has been loaded
replace_png_palette(png_data, palette_) ==
    IF ~check_signature(png_data) THEN Raise("ValueError")
    ELSE LET copied == replace_chunks(png_data, 8, palette_)
         IN  IF copied.error # None THEN copied
             ELSE Ok(Slice(png_data, 0, 8) \o copied.value)

(***************************************************************************)
(* The reader and the palette replacer on bounded files.                   *)
(***************************************************************************)
MaxIdxWidth == 3
MaxIdxHeight == 2

tEXt == <<116, 69, 88, 116>>
\* bit depth and colour type: 4-bit indexed, 8-bit grayscale, 8-bit RGBA
IdxModes == {<<4, 3>>, <<8, 0>>, <<8, 6>>}
RowBytes(mode, w) ==
    IF mode = <<4, 3>> THEN (w + 1) \div 2 ELSE IF mode = <<8, 0>> THEN w ELSE 4 * w
IdxByte(k, seed) == (37 * k + 101 * seed + 18) % 256
\* the filtered scanlines: filter byte 0, then the bytes of the row
IdxRaw(mode, w, h, seed) ==
    [k \in 1 .. h * (RowBytes(mode, w) + 1) |->
        IF (k - 1) % (RowBytes(mode, w) + 1) = 0 THEN 0 ELSE IdxByte(k, seed)]
IdxHeader(mode, w, h) ==
    make_chunk(IHDR, pack_be32(w) \o pack_be32(h) \o <<mode[1], mode[2], 0, 0, 0>>)
\* the image data in one IDAT chunk, or cut in two with a text chunk between
IdxData(z, split) ==
    IF split
    THEN make_chunk(IDAT, SubSeq(z, 1, Len(z) \div 2)) \o make_chunk(tEXt, <<73, 68, 65, 84>>)
         \o make_chunk(IDAT, SubSeq(z, (Len(z) \div 2) + 1, Len(z)))
    ELSE make_chunk(IDAT, z)
IdxBody(mode, w, h, seed, plte, split) ==
    IdxHeader(mode, w, h)
    \o (IF plte THEN make_chunk(PLTE, <<9, 8, 7, 6, 5, 4>>) ELSE <<>>)
    \o IdxData(zlib_compress(IdxRaw(mode, w, h, seed)), split)
    \o make_chunk(IEND, <<>>)
Signatures == {PNG_SIGNATURE, <<138, 80, 78, 71, 13, 10, 26, 10>>}
InputPngs ==
    {sig \o IdxBody(mode, w, h, seed, plte, split) :
        sig \in Signatures, mode \in IdxModes, w \in 0 .. MaxIdxWidth,
        h \in 0 .. MaxIdxHeight, seed \in {0, 1}, plte \in BOOLEAN, split \in BOOLEAN}
    \cup {<<>>, SubSeq(PNG_SIGNATURE, 1, 5), PNG_SIGNATURE,
          PNG_SIGNATURE \o SubSeq(IdxHeader(<<4, 3>>, 2, 1), 1, 10)}
\* two colours; two declared and one given; a channel of 256; another header
ReplacementFiles ==
    {<<<<"JASC-PAL">>, <<"0100">>, <<"2">>, <<"1", "2", "3">>, <<"0", "255", "16">>>>,
     <<<<"JASC-PAL">>, <<"0100">>, <<"2">>, <<"1", "2", "3">>>>,
     <<<<"JASC-PAL">>, <<"0100">>, <<"1">>, <<"256", "0", "0">>>>,
     <<<<"GIMP">>, <<"0100">>, <<"1">>, <<"1", "2", "3">>>>}

InitRead ==
    /\ pc = "read"
    /\ input_png \in InputPngs
    /\ pal_file \in ReplacementFiles
    /\ indexed = None /\ replaced_png = None /\ palette_replace = None
    /\ ReadOnly

ReadPngIndexedData ==
    /\ pc = "read"
    /\ indexed' = read_png_indexed_data(input_png)
    /\ pc' = "replace"
    /\ UNCHANGED <<input_png, pal_file, palette_replace, replaced_png, NotRead>>

\* replace_png_palette lines 30-91: nothing is written unless line 89 is reached
ReplacePngPalette ==
    /\ pc = "replace"
    /\ palette_replace' = load_jasc_palette_replace(pal_file)
    /\ replaced_png' = IF palette_replace'.error # None THEN Raise(palette_replace'.error)
                       ELSE replace_png_palette(input_png, palette_replace'.value)
    /\ pc' = "read_done"
    /\ UNCHANGED <<input_png, pal_file, indexed, NotRead>>

NextRead == ReadPngIndexedData \/ ReplacePngPalette

SpecRead == InitRead /\ [][NextRead]_vars

\* C17: decoding an image whose first 8 bytes differ from the signature
\* 89 50 4E 47 0D 0A 1A 0A, inputs shorter than 8 bytes included, fails with an
\* error in read_png_indexed_data and in replace_png_palette, before any chunk is
\* read and before anything is written.
C17_BadSignatureFails ==
    (\/ Len(input_png) < 8
     \/ \E k \in 1 .. 8 : input_png[k] # <<137, 80, 78, 71, 13, 10, 26, 10>>[k])
    => /\ pc \in {"replace", "read_done"}
          => indexed.error = "ValueError" /\ indexed.value = <<>>
       /\ pc = "read_done"
          => /\ replaced_png.error # None /\ replaced_png.value = <<>>
             /\ palette_replace.error = None => replaced_png.error = "ValueError"

\* A well-formed 4-bit image whose first byte is 8A instead of 89 has been
\* refused by the reader and by the replacer, whose palette had loaded.
C17_Witness ==
    /\ pc = "read_done"
    /\ Len(input_png) > 60
    /\ input_png[1] = 138
    /\ SubSeq(input_png, 2, 8) = SubSeq(PNG_SIGNATURE, 2, 8)
    /\ indexed.error = "ValueError"
    /\ palette_replace.error = None
    /\ replaced_png.error = "ValueError"

\* The bit depth and colour type declared by the IHDR chunk of the input.
DeclaredMode == <<input_png[25], input_png[26]>>
WellFormedInput ==
    /\ Len(input_png) >= 33
    /\ SubSeq(input_png, 1, 8) = PNG_SIGNATURE
    /\ SubSeq(input_png, 13, 16) = IHDR

\* C18: read_png_indexed_data fails with an error, and returns no pixel grid,
\* whenever the image header declares a bit depth / colour mode other than 4-bit
\* indexed or 8-bit grayscale; it never unpacks such data as 4-bit indices.
C18_OtherModesRejected ==
    (/\ pc \in {"replace", "read_done"}
     /\ WellFormedInput
     /\ DeclaredMode \notin {<<4, 3>>, <<8, 0>>})
    => indexed.error # None /\ indexed.value = <<>>

\* An 8-bit RGBA image of 2x1 pixels has been returned as a row of two 4-bit
\* indices, the two nibbles of its first byte.
C18_Witness ==
    /\ pc = "read_done"
    /\ WellFormedInput
    /\ DeclaredMode = <<8, 6>>
    /\ indexed.error = None
    /\ indexed.value.width = 2 /\ indexed.value.height = 1
    /\ Len(indexed.value.pixels[1]) = 2
    /\ \A x \in 1 .. 2 : indexed.value.pixels[1][x] \in 0 .. 15

\* Byte b (from 0) of scanline y (from 0) of the filtered image data.
ScanlineByte(raw, w, y, b) == raw[y * (((w + 1) \div 2) + 1) + 1 + b + 1]

\* C19: for a valid 4-bit indexed image with filter byte 0 on every scanline,
\* read_png_indexed_data inflates the payloads of all IDAT chunks in file order,
\* and only those, and returns height rows of exactly width indices in 0..15:
\* pixel x of row y is the high nibble of byte x div 2 of scanline y when x is
\* even and the low nibble when x is odd; for odd widths the last low nibble is
\* dropped.
C19_IndexedDecode ==
    (/\ pc \in {"replace", "read_done"}
     /\ WellFormedInput
     /\ DeclaredMode = <<4, 3>>)
    => LET w == unpack_be32(input_png, 16)
           h == unpack_be32(input_png, 20)
       IN  \E seed \in {0, 1}, plte \in BOOLEAN, split \in BOOLEAN :
              /\ input_png = PNG_SIGNATURE \o IdxBody(<<4, 3>>, w, h, seed, plte, split)
              /\ indexed.error = None
              /\ indexed.value.width = w /\ indexed.value.height = h
              /\ Len(indexed.value.pixels) = h
              /\ indexed.value.palette_data =
                     (IF plte THEN <<<<9, 8, 7, 6, 5, 4>>>> ELSE <<>>)
              /\ \A y \in 0 .. h - 1 :
                    /\ Len(indexed.value.pixels[y + 1]) = w
                    /\ \A x \in 0 .. w - 1 :
                          LET byte == ScanlineByte(IdxRaw(<<4, 3>>, w, h, seed), w, y, x \div 2)
                          IN  indexed.value.pixels[y + 1][x + 1] =
                                  (IF x % 2 = 0 THEN byte \div 16 ELSE byte % 16)

\* A 3x2 image whose data is cut into two IDAT chunks around a text chunk has
\* been read: two rows of three indices, the first pixel of the second row being
\* the high nibble of the byte after the second filter byte.
C19_Witness ==
    /\ pc = "read_done"
    /\ \E plte \in BOOLEAN :
          input_png = PNG_SIGNATURE \o IdxBody(<<4, 3>>, 3, 2, 1, plte, TRUE)
    /\ indexed.error = None
    /\ Len(indexed.value.pixels) = 2
    /\ Len(indexed.value.pixels[1]) = 3 /\ Len(indexed.value.pixels[2]) = 3
    /\ indexed.value.pixels[2][1] = IdxByte(5, 1) \div 16
    /\ indexed.value.pixels[2][2] = IdxByte(5, 1) % 16
    /\ indexed.value.pixels[2][1] # indexed.value.pixels[2][2]

\* C20: write_rgba_png emits exactly the 8-byte signature, one IHDR chunk
\* (width, height, bit depth 8, colour type 6), exactly one IDAT chunk holding
\* the whole image with a filter byte 0 before each scanline, and one empty IEND
\* chunk, in that order; in every chunk the big-endian length is the payload
\* length and the last 4 bytes are the CRC32 of the chunk type followed by the
\* payload.
C20_ContainerLayout ==
    pc \in {"written", "read_back"}
    => LET chunks == ParseChunks(output_png, 8)
           stride == 4 * width + 1
       IN  /\ SubSeq(output_png, 1, 8) = <<137, 80, 78, 71, 13, 10, 26, 10>>
           /\ Len(chunks) = 3
           /\ \A k \in 1 .. 3 : chunks[k].ok
           /\ chunks[1].type = <<73, 72, 68, 82>>
           /\ chunks[1].data = pack_be32(width) \o pack_be32(height) \o <<8, 6, 0, 0, 0>>
           /\ chunks[2].type = <<73, 68, 65, 84>>
           /\ zlib_decompress(chunks[2].data).error = None
           /\ zlib_decompress(chunks[2].data).value =
                  [k \in 1 .. height * stride |->
                      IF (k - 1) % stride = 0 THEN 0
                      ELSE rgba_pixels[((k - 1) \div stride) + 1][(k - 1) % stride]]
           /\ chunks[3].type = <<73, 69, 78, 68>>
           /\ chunks[3].data = <<>>
           /\ SubSeq(output_png, Len(output_png) - 11, Len(output_png)) =
                  <<0, 0, 0, 0, 73, 69, 78, 68, 174, 66, 96, 130>>

\* A 3x2 image with two different pixel values has been written: 8 + 25 bytes
\* of signature and header, one data chunk of 12 + 11 + 26 bytes, 12 of end.
C20_Witness ==
    /\ pc = "written"
    /\ width = 3 /\ height = 2
    /\ rgba_pixels[1] # rgba_pixels[2]
    /\ Len(output_png) = 8 + 25 + (12 + 11 + 26) + 12
    /\ SubSeq(output_png, 34, 41) = <<0, 0, 0, 37, 73, 68, 65, 84>>

(***************************************************************************)
(* border_tile_fix.apply_border_fallback.  border_tiles = None and         *)
(* border_tiles = [] are both false in `if border_tiles`, and both are     *)
(* <<>> here.                                                              *)
(***************************************************************************)
fallback_cell(border_tiles_, metatile_id, x, y, default_metatile) ==
    IF metatile_id <= 1
    THEN IF border_tiles_ # <<>>
         THEN get_border_metatile(border_tiles_, x, y)
         ELSE default_metatile
    ELSE metatile_id

apply_border_fallback(map_data_, border_tiles_, default_metatile) ==
    LET height_ == Len(map_data_)
        width_  == IF height_ > 0 THEN Len(map_data_[1]) ELSE 0
    IN  IF /\ border_tiles_ # <<>>
           /\ Len(border_tiles_) # 4
           /\ \E y \in 0 .. height_ - 1, x \in 0 .. width_ - 1 : map_data_[y + 1][x + 1] <= 1
        THEN Raise("ValueError")
        ELSE Ok([y \in 1 .. height_ |->
                    [x \in 1 .. width_ |->
                        fallback_cell(border_tiles_, map_data_[y][x], x - 1, y - 1,
                                      default_metatile)]])

\* Grids as load_map_bin returns them: rows of raw map blocks, some with
\* metatile id 0 or 1 under collision or elevation bits.
FallbackWords == <<0, 1, 2, 1024, 5, 3073, 4096>>
FallbackGrid(w, h, seed) ==
    [y \in 1 .. h |->
        [x \in 1 .. w |-> FallbackWords[((seed + (y - 1) * w + (x - 1)) % Len(FallbackWords)) + 1]]]
FallbackGrids ==
    {FallbackGrid(w, h, seed) :
        w \in 0 .. MaxMapWidth, h \in 0 .. MaxMapHeight, seed \in 0 .. Len(FallbackWords) - 1}
FallbackBorders == {<<>>, <<7, 8, 9, 10>>, <<0, 1, 2, 3>>, <<7, 8, 9>>}

FallbackOnly ==
    /\ BitsIdle /\ FileIdle /\ LoadIdle /\ ScanIdle /\ RenderIdle /\ PngIdle /\ JascIdle
    /\ ReadIdle
    /\ pos_x = 0 /\ pos_y = 0 /\ border_result = None
    /\ width_metatiles = 0 /\ height_metatiles = 0 /\ map_bin = <<>> /\ border_bin = NoFile
    /\ primary_tileset_dir = NoDir /\ secondary_tileset_dir = NoDir
    /\ primary_tileset = None /\ secondary_tileset = None
    /\ map_y = 0 /\ map_x = 0 /\ bottom_layer_data = <<>> /\ top_layer_data = <<>>
    /\ tiled_map = None
    /\ JobIdle /\ WalkIdle /\ stdout = <<>>

InitFallback ==
    /\ pc = "fallback"
    /\ map_data \in FallbackGrids
    /\ border_tiles \in FallbackBorders
    /\ fallback_result = None
    /\ FallbackOnly

ApplyBorderFallback ==
    /\ pc = "fallback"
    /\ fallback_result' = apply_border_fallback(map_data, border_tiles, 2)
    /\ pc' = "fallback_done"
    /\ UNCHANGED <<bitsVars, borderVars, fileVars, loadVars, scanVars, renderVars, pngVars,
                   mapVars, jascVars, readVars, jobVars, walkVars, stdout>>

NextFallback == ApplyBorderFallback

SpecFallback == InitFallback /\ [][NextFallback]_vars

\* C21: apply_border_fallback returns a grid of the same dimensions in which
\* every cell whose metatile id (the low 10 bits of its map block) is 0 or 1 is
\* replaced, by get_border_metatile(border, x, y) when a 4-entry border is
\* given and by the default id 2 when none is given, and every other cell is
\* returned unchanged.
C21_FallbackByMetatileId ==
    (pc = "fallback_done" /\ Len(border_tiles) \in {0, 4})
    => /\ fallback_result.error = None
       /\ Len(fallback_result.value) = Len(map_data)
       /\ \A y \in 1 .. Len(map_data) :
            /\ Len(fallback_result.value[y]) = Len(map_data[y])
            /\ \A x \in 1 .. Len(map_data[y]) :
                 fallback_result.value[y][x] =
                     IF BitAnd(map_data[y][x], 1023) <= 1
                     THEN IF Len(border_tiles) = 4
                          THEN border_tiles[(((x - 1 + 1) % 2) + ((y - 1 + 1) % 2) * 2) + 1]
                          ELSE 2
                     ELSE map_data[y][x]

\* A map block with metatile id 0 and collision 1 (raw 1024) and one with
\* metatile id 1 and collision 3 (raw 3073) come back as they went in.
C21_Witness ==
    /\ pc = "fallback_done"
    /\ border_tiles = <<>>
    /\ Len(map_data) = 2 /\ Len(map_data[1]) = 2
    /\ map_data[1] = <<2, 1024>>
    /\ fallback_result.error = None
    /\ fallback_result.value[1] = <<2, 1024>>
    /\ map_data[2][2] = 3073 /\ fallback_result.value[2][2] = 3073

\* C22: cell (x,y) of a W x H map is the little-endian u16 at index y*W + x of
\* the map buffer; the metadata object emitted for it carries metatile_id =
\* raw & 0x3FF, collision_bits = (raw >> 10) & 3, elevation = (raw >> 12) & 15
\* and is_solid = (collision_bits = 3); exactly W*H objects are emitted, in
\* row-major order, with ids 1..W*H and position (16*x, 16*y).
C22_CellMetadata ==
    pc = "map_written"
    => LET W       == width_metatiles
           H       == height_metatiles
           objects == tiled_map.layers[3].objects
       IN  /\ Len(objects) = W * H
           /\ \A y \in 0 .. H - 1, x \in 0 .. W - 1 :
                LET idx == y * W + x
                    raw == map_bin[2 * idx + 1] + 256 * map_bin[2 * idx + 2]
                    o   == objects[idx + 1]
                IN  /\ map_data[y + 1][x + 1] = raw
                    /\ o.id = idx + 1
                    /\ o.x = 16 * x /\ o.y = 16 * y
                    /\ o.metatile_id = raw % 1024
                    /\ o.collision_bits = (raw \div 1024) % 4
                    /\ o.elevation = (raw \div 4096) % 16
                    /\ o.is_solid = ((raw \div 1024) % 4 = 3)

\* A 2x2 map whose cell (0,1) is metatile 513 with collision 3 and whose cell
\* (1,1) is metatile 700 at elevation 3.
C22_Witness ==
    /\ pc = "map_written"
    /\ width_metatiles = 2 /\ height_metatiles = 2
    /\ map_data[2][1] = 513 + 3072 /\ map_data[2][2] = 700 + 12288
    /\ LET objects == tiled_map.layers[3].objects
       IN  /\ Len(objects) = 4
           /\ objects[3].id = 3 /\ objects[3].x = 0 /\ objects[3].y = 16
           /\ objects[3].is_solid /\ objects[3].metatile_id = 513
           /\ objects[4].id = 4 /\ objects[4].x = 16 /\ objects[4].y = 16
           /\ objects[4].elevation = 3 /\ ~objects[4].is_solid

(***************************************************************************)
(* convert_tileset_8x8: main and convert_tileset_to_8x8_with_properties,   *)
(* with the render_tileset_with_palettes.py run it starts.  stdout holds   *)
(* the first words of each line printed.                                   *)
(***************************************************************************)
\* render_tileset_with_palettes.load_all_palettes, lines 30-36: the .pal files in
\* sorted order, each under int(stem)
RECURSIVE load_all_palettes_from(_, _, _)
load_all_palettes_from(files, k, loaded) ==
    IF k > Len(files) THEN Ok(loaded)
    ELSE LET pal_num == int(files[k].stem)
             colors  == load_jasc_palette(files[k].lines)
         IN  IF pal_num.error # None THEN Raise(pal_num.error)
             ELSE IF colors.error # None THEN Raise(colors.error)
             ELSE load_all_palettes_from(files, k + 1,
                      [key \in DOMAIN loaded \cup {pal_num.value} |->
                          IF key = pal_num.value THEN colors.value ELSE loaded[key]])

load_all_palettes(dir) == load_all_palettes_from(dir.files, 1, <<>>)

\* render_tileset_with_palettes lines 143-176: the rows handed to write_rgba_png
render_rows(width_, height_, pixels_, palettes_, m_data, tile_offset_) ==
    LET per_row == width_ \div tile_size
        per_col == height_ \div tile_size
        chosen(ty, tx) ==
            resolve_palette(palettes_,
                            get_tile_palette_index(m_data, ty * per_row + tx + tile_offset_))
    IN  IF \E ty \in 0 .. per_col - 1, tx \in 0 .. per_row - 1 : chosen(ty, tx).error # None
        THEN Raise("KeyError")
        ELSE Ok([r \in 1 .. per_col * tile_size |->
                    [k \in 1 .. per_row * 4 * tile_size |->
                        LET tx == (k - 1) \div (4 * tile_size)
                        IN  tile_row_rgba(pixels_, r - 1, tx,
                                          chosen((r - 1) \div tile_size, tx).value)
                                [((k - 1) % (4 * tile_size)) + 1]]])

\* render_tileset_with_palettes.main, lines 215-258, as convert_tileset_8x8 runs
\* it: the bytes it leaves at output_png, or the error that made it exit with 1
render_main(tiles_png_, palettes_dir_, m_exists, m_data, writable, tile_offset_) ==
    IF ~tiles_png_.exists \/ ~palettes_dir_.exists \/ ~m_exists THEN Raise("sys.exit")
    ELSE LET image == read_png_indexed_data(tiles_png_.data)
         IN  IF image.error # None THEN Raise(image.error)
             ELSE LET loaded == load_all_palettes(palettes_dir_)
                  IN  IF loaded.error # None THEN Raise(loaded.error)
                      ELSE LET rows == render_rows(image.value.width, image.value.height,
                                                  image.value.pixels, loaded.value, m_data,
                                                  tile_offset_)
                           IN  IF rows.error # None THEN Raise(rows.error)
                               ELSE IF ~writable THEN Raise("PermissionError")
                               ELSE Ok(write_rgba_png(image.value.width, image.value.height,
                                                      rows.value))

\* convert_tileset_8x8.get_tile_dimensions, lines 237-245: Image.open(...).size,
\* and (128, 128) after any exception; the imaging library refuses a file that
\* does not start with the signature or has no complete header.
get_tile_dimensions(tiles_png_) ==
    IF tiles_png_.exists /\ check_signature(tiles_png_.data) /\ Len(tiles_png_.data) >= 33
    THEN Ok(<<unpack_be32(tiles_png_.data, 16), unpack_be32(tiles_png_.data, 20)>>)
    ELSE Raise("Exception")

\* lines 282-303: the Tiled tileset document
tileset_document(img_width, img_height) ==
    [columns |-> img_width \div 8, imagewidth |-> img_width, imageheight |-> img_height,
     tilecount |-> (img_width \div 8) * (img_height \div 8),
     tilewidth |-> 8, tileheight |-> 8, tiles |-> <<>>]

\* shutil.copy2(tiles_png_path, output_png_path)
copy2(tiles_png_, writable) ==
    IF writable THEN Ok(tiles_png_.data) ELSE Raise("PermissionError")

\* The inputs of a tileset job.
JobMetatiles == {TableBytes(<<r>>, <<>>) : r \in RenderRecords} \cup {TilesetBytes(13, 0)}
JobImages ==
    {NoFile,
     File(PNG_SIGNATURE \o IdxBody(<<4, 3>>, 2, 1, 0, TRUE, FALSE)),
     File(PNG_SIGNATURE \o IdxBody(<<4, 3>>, 8, 8, 1, FALSE, TRUE)),
     File(<<138, 80, 78, 71, 13, 10, 26, 10>> \o IdxBody(<<4, 3>>, 8, 8, 1, FALSE, FALSE))}
GoodPal == <<<<"JASC-PAL">>, <<"0100">>, <<"2">>, <<"1", "2", "3">>, <<"0", "255", "16">>>>
JobPaletteDirs ==
    {[exists |-> FALSE, files |-> <<>>],
     [exists |-> TRUE, files |-> <<[stem |-> "0", lines |-> GoodPal],
                                   [stem |-> "1", lines |-> GoodPal]>>],
     [exists |-> TRUE, files |-> <<[stem |-> "1", lines |-> GoodPal]>>],
     [exists |-> TRUE,
      files |-> <<[stem |-> "0", lines |-> <<<<"GIMP">>, <<"0100">>, <<"1">>, <<"1", "2", "3">>>>]>>],
     [exists |-> TRUE,
      files |-> <<[stem |-> "0", lines |-> GoodPal],
                  [stem |-> "1", lines |-> <<<<"JASC-PAL">>, <<"0100">>, <<"1">>, <<"1", "2">>>>]>>],
     [exists |-> TRUE, files |-> <<[stem |-> "backup", lines |-> GoodPal]>>]}

JobOnly ==
    /\ BitsIdle /\ BorderIdle /\ ScanIdle /\ RenderIdle /\ PngIdle /\ MapIdle /\ JascIdle
    /\ ReadIdle /\ FallbackIdle /\ WalkIdle /\ tileset = None

InitJob ==
    /\ pc = "job"
    /\ metatiles_exists \in BOOLEAN
    /\ metatiles_data \in (IF metatiles_exists THEN JobMetatiles ELSE {<<>>})
    /\ attributes_exists \in BOOLEAN
    /\ attributes_data = <<>>
    /\ tiles_png \in JobImages
    /\ palettes_dir \in JobPaletteDirs
    /\ apply_palettes \in BOOLEAN
    /\ script_exists \in BOOLEAN
    /\ png_writable \in BOOLEAN
    /\ metatiles = None
    /\ tileset_json = <<>> /\ output_png_file = <<>> /\ render_result = None
    /\ stdout = <<>>
    /\ JobOnly

\* main lines 386-411 and convert_tileset_to_8x8_with_properties lines 267-303:
\* the required files are checked, the metatiles are loaded, the image is sized
JobMain ==
    /\ pc = "job"
    /\ IF ~metatiles_exists \/ ~attributes_exists \/ ~tiles_png.exists
       THEN /\ stdout' = Append(stdout, "[ERROR] Error: Required file not found")
            /\ pc' = "job_failed"
            /\ UNCHANGED metatiles
       ELSE /\ metatiles' = load_metatiles(metatiles_exists, metatiles_data,
                                           attributes_exists, attributes_data)
            /\ LET truncated ==
                       IF Len(attributes_data) < (Len(metatiles_data) \div 8) * 4
                       THEN <<"[WARN] Attributes file is truncated">> ELSE <<>>
               IN  IF metatiles'.error # None
                   THEN /\ stdout' = stdout \o <<"Loading metatiles from">> \o truncated
                                     \o <<"[ERROR] Conversion failed">>
                        /\ pc' = "job_failed"
                   ELSE /\ stdout' = stdout \o <<"Loading metatiles from">> \o truncated
                                     \o <<"Loaded metatiles">>
                                     \o (IF get_tile_dimensions(tiles_png).error # None
                                         THEN <<"Warning: Could not read tiles.png">>
                                         ELSE <<>>)
                        /\ pc' = "job_json"
    /\ UNCHANGED <<fileVars, jobVars, tileset, bitsVars, borderVars, scanVars, renderVars,
                   pngVars, mapVars, jascVars, readVars, fallbackVars, walkVars>>

\* lines 305-308: the document is written to output_path
JobWriteJson ==
    /\ pc = "job_json"
    /\ LET size == get_tile_dimensions(tiles_png)
       IN  tileset_json' = IF size.error # None THEN <<tileset_document(128, 128)>>
                           ELSE <<tileset_document(size.value[1], size.value[2])>>
    /\ pc' = "job_image"
    /\ UNCHANGED <<fileVars, loadVars, tiles_png, palettes_dir, apply_palettes, script_exists,
                   png_writable, output_png_file, render_result, stdout, bitsVars, borderVars,
                   scanVars, renderVars, pngVars, mapVars, jascVars, readVars, fallbackVars, walkVars>>

\* lines 310-359: the image is rendered by the script, or tiles.png is copied
JobImage ==
    /\ pc = "job_image"
    /\ LET run    == apply_palettes /\ palettes_dir.exists /\ metatiles_exists /\ script_exists
           result == render_main(tiles_png, palettes_dir, metatiles_exists, metatiles_data,
                                 png_writable, tile_offset)
           copied == copy2(tiles_png, png_writable)
           before == IF ~apply_palettes THEN <<>>
                     ELSE IF ~palettes_dir.exists
                     THEN <<"[WARN] Warning: Palettes directory not found">>
                     ELSE IF ~metatiles_exists
                     THEN <<"[WARN] Warning: metatiles.bin not found">>
                     ELSE IF ~script_exists
                     THEN <<"[WARN] Warning: render_tileset_with_palettes.py not found">>
                     ELSE <<"[WARN] Warning: Failed to apply palettes">>
           after  == IF ~apply_palettes THEN <<"[OK] Copied tileset image">> ELSE <<>>
       IN  IF ~tiles_png.exists
           THEN /\ stdout' = stdout \o <<"[WARN] Warning: tiles.png not found",
                                         "[OK] Converted tileset saved">>
                /\ pc' = "job_done"
                /\ UNCHANGED <<output_png_file, render_result>>
           ELSE IF run /\ result.error = None
           THEN /\ render_result' = result
                /\ output_png_file' = <<result.value>>
                /\ stdout' = stdout \o <<"[OK] Applied palettes to tileset image",
                                         "[OK] Converted tileset saved">>
                /\ pc' = "job_done"
           ELSE /\ render_result' = IF run THEN result ELSE render_result
                /\ IF copied.error = None
                   THEN /\ output_png_file' = <<copied.value>>
                        /\ stdout' = stdout \o before \o after
                                     \o <<"[OK] Converted tileset saved">>
                        /\ pc' = "job_done"
                   ELSE /\ output_png_file' = output_png_file
                        /\ stdout' = stdout \o before \o <<"[ERROR] Conversion failed">>
                        /\ pc' = "job_failed"
    /\ UNCHANGED <<fileVars, loadVars, tiles_png, palettes_dir, apply_palettes, script_exists,
                   png_writable, tileset_json, bitsVars, borderVars, scanVars, renderVars,
                   pngVars, mapVars, jascVars, readVars, fallbackVars, walkVars>>

NextJob == JobMain \/ JobWriteJson \/ JobImage

SpecJob == InitJob /\ [][NextJob]_vars

\* A format error met by the job so far: tiles.png refused for its magic by
\* get_tile_dimensions, or the rendering run ended by a ValueError (bad magic,
\* bad palette header, malformed palette line).
FormatErrorSeen ==
    \/ \E i \in 1 .. Len(stdout) : stdout[i] = "Warning: Could not read tiles.png"
    \/ /\ \E i \in 1 .. Len(stdout) : stdout[i] = "[WARN] Warning: Failed to apply palettes"
       /\ render_result.error = "ValueError"

\* C23: a format error in any input of a job is fatal to the job: the tileset
\* conversion never continues after it and never publishes an output image or
\* an output document once it has occurred; a failed palette rendering is not
\* replaced by a copy of the unrendered source image.
C23_FormatErrorFatal ==
    FormatErrorSeen => /\ pc # "job_done"
                       /\ tileset_json = <<>>
                       /\ output_png_file = <<>>

\* The palette file 0.pal starts with GIMP: the rendering run fails, and the job
\* ends well with the document written and tiles.png copied unrendered.
C23_Witness ==
    /\ pc = "job_done"
    /\ check_signature(tiles_png.data)
    /\ palettes_dir.exists /\ Len(palettes_dir.files) = 1
    /\ palettes_dir.files[1].lines[1] = <<"GIMP">>
    /\ apply_palettes /\ script_exists
    /\ render_result.error = "ValueError"
    /\ tileset_json # <<>>
    /\ output_png_file = <<tiles_png.data>>

\* C24: a conversion job is atomic in its outputs: it succeeds and the document
\* and the image both exist, or it fails and neither has been written; no state
\* is reachable in which the job has failed after one of them was written.
C24_JobAtomic ==
    /\ pc = "job_done" => tileset_json # <<>> /\ output_png_file # <<>>
    /\ pc = "job_failed" => tileset_json = <<>> /\ output_png_file = <<>>

\* The job failed while copying tiles.png, after the document had been written.
C24_Witness ==
    /\ pc = "job_failed"
    /\ ~png_writable
    /\ tileset_json # <<>>
    /\ output_png_file = <<>>
    /\ stdout[Len(stdout)] = "[ERROR] Conversion failed"

\* The palette keys the finished job asked for and did not find loaded.
MissingKeysRequested ==
    {get_tile_palette_index(metatiles_data, t + tile_offset) :
        t \in 0 .. tiles_per_row * tiles_per_col - 1} \ DOMAIN palettes

\* The lines a rendering job prints when nothing is missing.
RenderLines ==
    {"Loading indexed PNG", "Loading palettes from", "Loaded palettes", "Using tile offset",
     "[OK] Rendered tileset to"}

\* C25: during one rendering job each distinct palette key requested for some
\* tile and absent from the loaded palettes is recorded as exactly one
\* warning: after the job the number of missing-palette warnings, the lines
\* printed beyond the job's own progress lines, equals the number of distinct
\* missing keys requested.
C25_OneWarningPerMissingKey ==
    pc = "rendered"
    => Cardinality({i \in 1 .. Len(stdout) : stdout[i] \notin RenderLines})
           = Cardinality(MissingKeysRequested)

\* Two tiles asked for the palettes 1 and 2, only palette 0 was loaded, and the
\* job ended having printed its four progress lines and nothing else.
C25_Witness ==
    /\ pc = "rendered"
    /\ DOMAIN palettes = {0}
    /\ width = 16 /\ height = 8 /\ tile_offset = 0
    /\ MissingKeysRequested = {1, 2}
    /\ stdout = <<"Loading indexed PNG", "Loading palettes from", "Loaded palettes",
                  "[OK] Rendered tileset to">>
    /\ Len(rgba_pixels) = 8

\* C28: the raster that render_tileset_with_palettes hands to write_rgba_png
\* matches the header written: for every source width and height, multiples of
\* 8 or not, it holds exactly `height` rows of exactly 4 * `width` byte values.
C28_RasterMatchesHeader ==
    pc \in {"write", "written", "rendered"}
    => /\ Len(rgba_pixels) = height
       /\ \A r \in 1 .. Len(rgba_pixels) : Len(rgba_pixels[r]) = 4 * width

\* A 12x11 source: the file written declares 12x11 in its header and carries
\* 8 scanlines of 32 bytes.
C28_Witness ==
    /\ pc = "written"
    /\ width = 12 /\ height = 11
    /\ Len(rgba_pixels) = 8
    /\ \A r \in 1 .. 8 : Len(rgba_pixels[r]) = 32
    /\ SubSeq(output_png, 17, 24) = <<0, 0, 0, 12, 0, 0, 0, 11>>
    /\ zlib_decompress(ParseChunks(output_png, 8)[2].data).error = None
    /\ Len(zlib_decompress(ParseChunks(output_png, 8)[2].data).value) = 8 * 33

\* The k-th little-endian u16 of metatiles.bin, k from 0.
TableWord(k) == unpack_le16(metatiles_data, 2 * k)

\* C26: every decoder of the metatile table reads it as 16-byte records of 8
\* little-endian u16: for every buffer, load_metatiles,
\* load_metatiles_from_pokeemerald and get_tile_palette_index all see
\* len div 16 records, and record i is built from the bytes [16*i, 16*i + 16).
C26_SixteenByteRecords ==
    (pc = "load_done" /\ metatiles_exists)
    => LET n == Len(metatiles_data) \div 16
       IN  /\ metatiles.error = None
           /\ Len(metatiles.value) = n
           /\ \A i \in 0 .. n - 1 :
                metatiles.value[i + 1].tiles = [q \in 1 .. 4 |-> TableWord(8 * i + q - 1)]
           /\ DOMAIN tileset = 0 .. n - 1
           /\ \A i \in 0 .. n - 1, q \in 1 .. 4 :
                /\ tileset[i].tiles[q].gid = (TableWord(8 * i + q - 1) % 1024) + 1
                /\ tileset[i].top_tiles[q].gid = (TableWord(8 * i + 4 + q - 1) % 1024) + 1
           /\ \A k \in 0 .. (Len(metatiles_data) \div 2) - 1 :
                LET t    == TableWord(k) % 1024
                    seen == {j \in 0 .. 8 * n - 1 : TableWord(j) % 1024 = t}
                IN  get_tile_palette_index(metatiles_data, t) =
                        IF seen = {} THEN 0
                        ELSE (TableWord(CHOOSE j \in seen : \A m \in seen : j <= m) \div 4096) % 16

\* A table of 32 bytes: load_metatiles returns 4 records, the second made of
\* the bytes 8..15, and load_metatiles_from_pokeemerald returns 2.
C26_Witness ==
    /\ pc = "load_done"
    /\ Len(metatiles_data) = 32
    /\ metatiles.error = None
    /\ Len(metatiles.value) = 4
    /\ metatiles.value[2].tiles = [q \in 1 .. 4 |-> TableWord(4 + q - 1)]
    /\ DOMAIN tileset = {0, 1}

\* C27: the behavior id decoded from an attribute record is an 8-bit value:
\* under the 4-byte variant (load_metatiles) and under the 2-byte variant
\* (load_metatiles_from_pokeemerald) the behavior of every record the file
\* holds whole lies in 0..255 and is the low 8 bits of the record's first u16.
C27_BehaviorEightBits ==
    (pc = "load_done" /\ metatiles_exists /\ attributes_exists)
    => /\ metatiles.error = None
          => \A i \in 0 .. Len(metatiles.value) - 1 :
                4 * i + 4 <= Len(attributes_data)
                => /\ metatiles.value[i + 1].attributes.behavior \in 0 .. 255
                   /\ metatiles.value[i + 1].attributes.behavior =
                          unpack_le16(attributes_data, 4 * i) % 256
       /\ \A i \in DOMAIN tileset :
                2 * i + 2 <= Len(attributes_data)
                => /\ tileset[i].behavior \in 0 .. 255
                   /\ tileset[i].behavior = unpack_le16(attributes_data, 2 * i) % 256

\* An attribute file starting 07 93: the 2-byte variant decodes behavior 7,
\* the 4-byte variant decodes 0x9307.
C27_Witness ==
    /\ pc = "load_done"
    /\ Len(metatiles_data) = 16
    /\ Len(attributes_data) >= 4
    /\ SubSeq(attributes_data, 1, 4) = <<7, 147, 0, 0>>
    /\ metatiles.error = None
    /\ metatiles.value[1].attributes.behavior = 7 + 256 * 147
    /\ tileset[0].behavior = 7

(***************************************************************************)
(* The chunk walk of read_png_indexed_data (lines 57-68) and of            *)
(* replace_png_palette (lines 50-82), one loop iteration at a time.        *)
(***************************************************************************)
\* the step with the 4 bytes of the CRC left out
next_pos_without_crc(pos_, length) == pos_ + 8 + length

\* read_png_indexed_data line 68, replace_png_palette line 82: pos += 12 + length
next_pos(pos_, length) == pos_ + 12 + length

WalkBodies ==
    {IdxBody(<<4, 3>>, w, h, 0, plte, split) :
        w \in 0 .. MaxIdxWidth, h \in 0 .. MaxIdxHeight, plte \in BOOLEAN, split \in BOOLEAN}
\* whole files, a bare signature, a file ending inside a chunk header, files
\* ending inside a chunk's payload, and a file with another first byte
WalkPngs ==
    {PNG_SIGNATURE \o body : body \in WalkBodies}
    \cup {PNG_SIGNATURE,
          PNG_SIGNATURE \o IdxHeader(<<4, 3>>, 2, 1) \o <<0, 0>>,
          PNG_SIGNATURE \o SubSeq(IdxHeader(<<4, 3>>, 2, 1), 1, 10),
          PNG_SIGNATURE \o IdxHeader(<<4, 3>>, 2, 1)
              \o SubSeq(make_chunk(tEXt, <<1, 2, 3, 4, 5>>), 1, 11),
          <<138, 80, 78, 71, 13, 10, 26, 10>> \o IdxBody(<<4, 3>>, 2, 1, 0, TRUE, FALSE)}

\* files for the replacing tool alone, which never looks for a header: they
\* open with a short text chunk, and one has nothing else
WalkPngsNoHeader ==
    {PNG_SIGNATURE \o make_chunk(tEXt, <<1, 2>>) \o IdxBody(<<4, 3>>, 2, 1, 0, TRUE, FALSE),
     PNG_SIGNATURE \o make_chunk(tEXt, <<>>)}

\* palette files for the walk: two colours, a channel of 256, another header
WalkPalFiles ==
    {<<<<"JASC-PAL">>, <<"0100">>, <<"2">>, <<"1", "2", "3">>, <<"0", "255", "16">>>>,
     <<<<"JASC-PAL">>, <<"0100">>, <<"1">>, <<"256", "0", "0">>>>,
     <<<<"GIMP">>, <<"0100">>, <<"1">>, <<"1", "2", "3">>>>}

WalkOnly ==
    /\ BitsIdle /\ BorderIdle /\ FileIdle /\ LoadIdle /\ ScanIdle /\ RenderIdle /\ PngIdle
    /\ MapIdle /\ palette_render = None /\ palette_apply = None /\ palette_replace = None
    /\ indexed = None /\ replaced_png = None
    /\ FallbackIdle /\ JobIdle /\ stdout = <<>>

NotWalk == <<bitsVars, borderVars, fileVars, loadVars, scanVars, renderVars, pngVars, mapVars,
             palette_render, palette_apply, palette_replace, indexed, replaced_png,
             fallbackVars, jobVars, stdout>>

InitWalk ==
    /\ pc = "walk"
    /\ walk_tool \in {"read", "replace"}
    /\ input_png \in (IF walk_tool = "replace" THEN WalkPngs \cup WalkPngsNoHeader ELSE WalkPngs)
    /\ pal_file \in (IF walk_tool = "replace" THEN WalkPalFiles ELSE {<<>>})
    /\ walk_pos = 0 /\ output_chunks = <<>>
    /\ walk_found = [palette_data |-> <<>>, idat_data |-> <<>>]
    /\ walk_palette = <<>> /\ walk_result = <<>>
    /\ WalkOnly

\* read_png_indexed_data lines 44-57; replace_png_palette lines 35-51
WalkStart ==
    /\ pc = "walk"
    /\ IF walk_tool = "read"
       THEN /\ IF ~check_signature(input_png)
               THEN walk_result' = <<Raise("ValueError")>> /\ pc' = "walk_raised"
               ELSE IF Len(input_png) < 24
               THEN walk_result' = <<Raise("struct.error")>> /\ pc' = "walk_raised"
               ELSE walk_result' = <<>> /\ pc' = "walking"
            /\ UNCHANGED <<walk_palette, output_chunks>>
       ELSE LET palette_ == load_jasc_palette_replace(pal_file)
            IN  IF palette_.error # None
                THEN /\ walk_result' = <<Raise(palette_.error)>> /\ pc' = "walk_raised"
                     /\ UNCHANGED <<walk_palette, output_chunks>>
                ELSE IF ~check_signature(input_png)
                THEN /\ walk_result' = <<Raise("ValueError")>> /\ pc' = "walk_raised"
                     /\ walk_palette' = <<palette_.value>>
                     /\ UNCHANGED output_chunks
                ELSE /\ walk_result' = <<>> /\ pc' = "walking"
                     /\ walk_palette' = <<palette_.value>>
                     /\ output_chunks' = Slice(input_png, 0, 8)
    /\ walk_pos' = 8
    /\ UNCHANGED <<walk_tool, input_png, pal_file, walk_found, NotWalk>>

\* read_png_indexed_data lines 58-68; replace_png_palette lines 53-82: one
\* iteration of `while pos < len(png_data)`
WalkChunk ==
    /\ pc = "walking"
    /\ walk_pos < Len(input_png)
    /\ IF Len(input_png) - walk_pos < 4
       THEN /\ walk_result' = <<Raise("struct.error")>>
            /\ pc' = "walk_raised"
            /\ UNCHANGED <<walk_pos, walk_found, output_chunks>>
       ELSE LET length     == unpack_be32(input_png, walk_pos)
                chunk_type == Slice(input_png, walk_pos + 4, walk_pos + 8)
                chunk_data == Slice(input_png, walk_pos + 8, walk_pos + 8 + length)
                new_plte_data == plte_bytes(walk_palette[1], 1)
            IN  IF walk_tool = "read"
                THEN /\ walk_found' =
                            IF chunk_type = PLTE
                            THEN [walk_found EXCEPT !.palette_data = <<chunk_data>>]
                            ELSE IF chunk_type = IDAT
                            THEN [walk_found EXCEPT !.idat_data = @ \o chunk_data]
                            ELSE walk_found
                     /\ walk_pos' = next_pos(walk_pos, length)
                     /\ UNCHANGED <<pc, walk_result, output_chunks>>
                ELSE IF chunk_type = PLTE
                        /\ \E k \in 1 .. Len(new_plte_data) : new_plte_data[k] \notin 0 .. 255
                THEN /\ walk_result' = <<Raise("ValueError")>>
                     /\ pc' = "walk_raised"
                     /\ UNCHANGED <<walk_pos, walk_found, output_chunks>>
                ELSE /\ output_chunks' =
                            IF chunk_type = PLTE
                            THEN output_chunks \o pack_be32(Len(new_plte_data)) \o PLTE
                                 \o new_plte_data \o Bytes32(crc32(PLTE \o new_plte_data))
                            ELSE output_chunks
                                 \o Slice(input_png, walk_pos, walk_pos + 12 + length)
                     /\ walk_pos' = next_pos(walk_pos, length)
                     /\ UNCHANGED <<pc, walk_result, walk_found>>
    /\ UNCHANGED <<walk_tool, input_png, pal_file, walk_palette, NotWalk>>

\* read_png_indexed_data lines 70-92; replace_png_palette lines 84-91: the loop
\* has ended
WalkEnd ==
    /\ pc = "walking"
    /\ ~(walk_pos < Len(input_png))
    /\ IF walk_tool = "read"
       THEN LET raw_data == zlib_decompress(walk_found.idat_data)
                width_   == unpack_be32(input_png, 16)
                height_  == unpack_be32(input_png, 20)
            IN  IF raw_data.error # None
                THEN walk_result' = <<Raise("zlib.error")>> /\ pc' = "walk_raised"
                ELSE /\ walk_result' =
                            <<Ok([width |-> width_, height |-> height_,
                                  pixels |-> unpack_rows(raw_data.value, width_, height_),
                                  palette_data |-> walk_found.palette_data])>>
                     /\ pc' = "walk_done"
       ELSE /\ walk_result' = <<Ok(output_chunks)>>
            /\ pc' = "walk_done"
    /\ UNCHANGED <<walk_tool, input_png, pal_file, walk_palette, walk_pos, walk_found,
                   output_chunks, NotWalk>>

NextWalk == WalkStart \/ WalkChunk \/ WalkEnd

SpecWalk == InitWalk /\ [][NextWalk]_vars

\* a running tool takes its next step; every step changes pc or walk_pos
SpecWalkFair == SpecWalk /\ WF_<<pc, walk_pos>>(NextWalk)

\* C29: the chunk walk terminates on every finite input that starts with the
\* signature: each loop iteration advances the read position by
\* 12 + length >= 12 and so never revisits a position, and in the end the
\* position reaches or passes the end of the buffer and the loop exits, or a
\* read of a truncated chunk header raises.
C29_WalkTerminates ==
    /\ [][(pc = "walking" /\ pc' = "walking") => walk_pos' >= walk_pos + 12]_<<pc, walk_pos>>
    /\ <>(pc \in {"walk_done", "walk_raised"})

\* The reader has walked a file of six chunks, the image data split in two
\* around a text chunk, and stopped exactly at its end.
C29_Witness ==
    /\ pc = "walk_done"
    /\ walk_tool = "read"
    /\ walk_pos = Len(input_png)
    /\ walk_found.palette_data = <<<<9, 8, 7, 6, 5, 4>>>>
    /\ Len(input_png) > 8 + 25 + 18 + 3 * 12 + 4 + 12
    /\ walk_result[1].error = None
    /\ walk_result[1].value.width = 3 /\ walk_result[1].value.height = 2


(***************************************************************************)
(* replace_png_palette: what the output keeps of the input.                *)
(***************************************************************************)
\* the offsets at which the chunks of a file start, by the layout of the format:
\* 4 bytes of length, 4 of type, the payload, 4 of CRC
RECURSIVE chunk_starts(_, _)
chunk_starts(data, pos) ==
    IF pos >= Len(data) THEN <<>>
    ELSE <<pos>> \o chunk_starts(data, pos + 12 + unpack_be32(data, pos))

chunk_at(data, pos) == Slice(data, pos, pos + 12 + unpack_be32(data, pos))
chunk_type_at(data, pos) == Slice(data, pos + 4, pos + 8)

\* the R, G, B bytes of the colours, one colour after the other
rgb_payload(colours) ==
    [k \in 1 .. 3 * Len(colours) |-> colours[((k - 1) \div 3) + 1][((k - 1) % 3) + 1]]

\* C30: replace_png_palette changes only palette chunks: its output is the
\* input's 8-byte signature followed by the input's chunks in the same order,
\* where every chunk of type PLTE is replaced by a PLTE chunk whose payload is
\* the new palette's R,G,B bytes, whose length field is 3 * number of colours
\* and whose CRC is the CRC32 of type followed by payload, and every chunk of
\* any other type is copied byte for byte; with no PLTE chunk the output equals
\* the input.
C30_OnlyPaletteChunksChange ==
    (pc = "read_done" /\ replaced_png.error = None)
    => LET out  == replaced_png.value
           ins  == chunk_starts(input_png, 8)
           outs == chunk_starts(out, 8)
           payload == rgb_payload(palette_replace.value)
       IN  /\ Slice(out, 0, 8) = Slice(input_png, 0, 8)
           /\ Len(out) >= 8
           /\ Len(outs) = Len(ins)
           /\ \A i \in 1 .. Len(ins) :
                 IF chunk_type_at(input_png, ins[i]) = PLTE
                 THEN /\ chunk_at(out, outs[i])
                           = pack_be32(3 * Len(palette_replace.value)) \o PLTE \o payload
                             \o Bytes32(crc32(PLTE \o payload))
                      /\ outs[i] + 12 + Len(payload) <= Len(out)
                 ELSE chunk_at(out, outs[i]) = chunk_at(input_png, ins[i])
           /\ (\A i \in 1 .. Len(ins) : chunk_type_at(input_png, ins[i]) # PLTE)
              => out = input_png

\* A file of six chunks with a 6-byte palette has been rewritten with a palette
\* of two colours: the output differs from the input in the palette chunk alone.
C30_Witness ==
    /\ pc = "read_done"
    /\ replaced_png.error = None
    /\ palette_replace.value = <<<<1, 2, 3>>, <<0, 255, 16>>>>
    /\ Len(chunk_starts(input_png, 8)) = 6
    /\ chunk_at(input_png, 33) = make_chunk(PLTE, <<9, 8, 7, 6, 5, 4>>)
    /\ chunk_at(replaced_png.value, 33) = make_chunk(PLTE, <<1, 2, 3, 0, 255, 16>>)
    /\ replaced_png.value # input_png
    /\ Len(replaced_png.value) = Len(input_png)

====
